---------------------------- MODULE Spec2Model ----------------------------
(***************************************************************************)
(* A model of bedetheque_scraper: the file-name heuristics of BDFile        *)
(* (file_name.py), the catalog resolution and album scraping of scraper.py, *)
(* the batch driver of main.py and the series-linking run of series.py.     *)
(*                                                                          *)
(* Text is modelled as a sequence of one-character strings, so that the     *)
(* regular expressions and the str methods of the source are computed       *)
(* character by character.                                                  *)
(***************************************************************************)
EXTENDS Integers, Sequences, FiniteSets, TLC

(***************************************************************************)
(* Python str helpers                                                       *)
(***************************************************************************)
Digits == {"0", "1", "2", "3", "4", "5", "6", "7", "8", "9"}

UpperLetters ==
    {"A", "B", "C", "D", "E", "F", "G", "H", "I", "J", "K", "L", "M",
     "N", "O", "P", "Q", "R", "S", "T", "U", "V", "W", "X", "Y", "Z"}

LowerLetters ==
    {"a", "b", "c", "d", "e", "f", "g", "h", "i", "j", "k", "l", "m",
     "n", "o", "p", "q", "r", "s", "t", "u", "v", "w", "x", "y", "z"}

AsciiLetters == UpperLetters \cup LowerLetters

\* \s of the re module, restricted to the characters of the model
Whitespace == {" "}

\* \w of the re module: letters, digits and the underscore
WordChars == AsciiLetters \cup Digits \cup {"_"}

\* the character class [\w '&.-] of TITLE_PATTERNS
TitleChars == WordChars \cup {" ", "'", "&", ".", "-"}

LowerOf ==
    [c \in UpperLetters |->
        CASE c = "A" -> "a" [] c = "B" -> "b" [] c = "C" -> "c" [] c = "D" -> "d"
          [] c = "E" -> "e" [] c = "F" -> "f" [] c = "G" -> "g" [] c = "H" -> "h"
          [] c = "I" -> "i" [] c = "J" -> "j" [] c = "K" -> "k" [] c = "L" -> "l"
          [] c = "M" -> "m" [] c = "N" -> "n" [] c = "O" -> "o" [] c = "P" -> "p"
          [] c = "Q" -> "q" [] c = "R" -> "r" [] c = "S" -> "s" [] c = "T" -> "t"
          [] c = "U" -> "u" [] c = "V" -> "v" [] c = "W" -> "w" [] c = "X" -> "x"
          [] c = "Y" -> "y" [] c = "Z" -> "z"]

\* str.lower()
Lower(s) == [i \in 1..Len(s) |-> IF s[i] \in UpperLetters THEN LowerOf[s[i]] ELSE s[i]]

\* the elements of a sequence
Range(s) == {s[i] : i \in 1..Len(s)}

\* s[a..b] as Python's s[a-1:b]; empty when b < a
Slice(s, a, b) == IF b < a THEN << >> ELSE SubSeq(s, a, b)

\* s.startswith(p) at position i (1-based)
HasAt(s, i, p) ==
    /\ i >= 1
    /\ i + Len(p) - 1 <= Len(s)
    /\ \A k \in 1..Len(p) : s[i + k - 1] = p[k]

\* str.find: the first position at which p occurs in s, 0 when it does not
Find(s, p) ==
    LET hits == {i \in 1..(Len(s) - Len(p) + 1) : HasAt(s, i, p)}
    IN  IF hits = {} THEN 0 ELSE CHOOSE i \in hits : \A j \in hits : i <= j

RECURSIVE LStrip(_)
\* str.lstrip() of whitespace
LStrip(s) == IF s # << >> /\ Head(s) \in Whitespace THEN LStrip(Tail(s)) ELSE s

RECURSIVE RStrip(_)
\* str.rstrip() of whitespace
RStrip(s) ==
    IF s # << >> /\ s[Len(s)] \in Whitespace THEN RStrip(Slice(s, 1, Len(s) - 1)) ELSE s

\* str.strip()
Strip(s) == LStrip(RStrip(s))

\* s.split(sep)[0]: the text before the first occurrence of sep
SplitFirst(s, sep) ==
    LET at == Find(s, sep) IN IF at = 0 THEN s ELSE Slice(s, 1, at - 1)

\* str.removesuffix
RemoveSuffix(s, suf) ==
    IF Len(suf) <= Len(s) /\ HasAt(s, Len(s) - Len(suf) + 1, suf)
    THEN Slice(s, 1, Len(s) - Len(suf))
    ELSE s

RECURSIVE LStripZeros(_)
LStripZeros(s) == IF s # << >> /\ Head(s) = "0" THEN LStripZeros(Tail(s)) ELSE s

\* a faulty str(int(number)): the digits as they stand
StrIntKeepsZeros(number) == number

\* str(int(number)) for a run of decimal digits
StrInt(number) == IF LStripZeros(number) = << >> THEN <<"0">> ELSE LStripZeros(number)

\* the last position of the greedy \d+ starting at i (i - 1 when s[i] is no digit)
RECURSIVE DigitRunEnd(_, _)
DigitRunEnd(s, i) ==
    IF i <= Len(s) /\ s[i] \in Digits THEN DigitRunEnd(s, i + 1) ELSE i - 1

\* the last position of the greedy \s* starting at i (i - 1 when empty)
RECURSIVE SpaceRunEnd(_, _)
SpaceRunEnd(s, i) ==
    IF i <= Len(s) /\ s[i] \in Whitespace THEN SpaceRunEnd(s, i + 1) ELSE i - 1


(***************************************************************************)
(* file_name.py: NUMBER_PATTERNS and BDFile                                 *)
(***************************************************************************)
NoMatch == [ok |-> FALSE]

\* a match: group(1) is s[bs..be], group(2) is s[ns..ne]
Matched(bs, be, ns, ne) == [ok |-> TRUE, bs |-> bs, be |-> be, ns |-> ns, ne |-> ne]

\* ( T(\d+)) anchored at i
MatchT(s, i) ==
    IF HasAt(s, i, <<" ", "T">>) /\ DigitRunEnd(s, i + 2) >= i + 2
    THEN Matched(i, DigitRunEnd(s, i + 2), i + 2, DigitRunEnd(s, i + 2))
    ELSE NoMatch

\* ((\d+)) anchored at i
MatchBare(s, i) ==
    IF DigitRunEnd(s, i) >= i
    THEN Matched(i, DigitRunEnd(s, i), i, DigitRunEnd(s, i))
    ELSE NoMatch

\* ( [Tt]ome\s*(\d+)) anchored at i
MatchTome(s, i) ==
    LET ns == SpaceRunEnd(s, i + 5) + 1
    IN  IF /\ (HasAt(s, i, <<" ", "T", "o", "m", "e">>)
                 \/ HasAt(s, i, <<" ", "t", "o", "m", "e">>))
           /\ DigitRunEnd(s, ns) >= ns
        THEN Matched(i, DigitRunEnd(s, ns), ns, DigitRunEnd(s, ns))
        ELSE NoMatch

\* ( Vol(?:ume)?\s?(\d+)) anchored at i
MatchVol(s, i) ==
    LET afterVol == IF HasAt(s, i + 4, <<"u", "m", "e">>) THEN i + 7 ELSE i + 4
        ns       == IF afterVol <= Len(s) /\ s[afterVol] \in Whitespace
                    THEN afterVol + 1 ELSE afterVol
    IN  IF HasAt(s, i, <<" ", "V", "o", "l">>) /\ DigitRunEnd(s, ns) >= ns
        THEN Matched(i, DigitRunEnd(s, ns), ns, DigitRunEnd(s, ns))
        ELSE NoMatch

\* ( -\s*(\d+)\s*-) anchored at i
MatchDash(s, i) ==
    LET ns   == SpaceRunEnd(s, i + 2) + 1
        ne   == DigitRunEnd(s, ns)
        dash == SpaceRunEnd(s, ne + 1) + 1
    IN  IF /\ HasAt(s, i, <<" ", "-">>)
           /\ ne >= ns
           /\ dash <= Len(s)
           /\ s[dash] = "-"
        THEN Matched(i, dash, ns, ne)
        ELSE NoMatch

NumPatterns == 5

\* NUMBER_PATTERNS[k - 1] anchored at i
NumberPatternAt(k, s, i) ==
    CASE k = 1 -> MatchT(s, i)
      [] k = 2 -> MatchBare(s, i)
      [] k = 3 -> MatchTome(s, i)
      [] k = 4 -> MatchVol(s, i)
      [] k = 5 -> MatchDash(s, i)

\* pattern.search(s): the leftmost match
PatternSearch(k, s) ==
    LET hits == {i \in 1..Len(s) : NumberPatternAt(k, s, i).ok}
    IN  IF hits = {} THEN NoMatch
        ELSE NumberPatternAt(k, s, CHOOSE i \in hits : \A j \in hits : i <= j)

\* a faulty year test that rejects nothing
IsYearNever(number) == FALSE

\* the year test of get_number: four digits starting with 19 or 20
IsYear(number) ==
    Len(number) = 4 /\ (HasAt(number, 1, <<"1", "9">>) \/ HasAt(number, 1, <<"2", "0">>))

\* None of Python where a str is expected
None == <<"<None>">>

\* None of Python where a list of str is expected
NoneList == << None >>

\* None of Python where a Serie is expected
NoSerie == [title |-> None, url |-> 0]

\* the loop of BDFile.get_number from pattern k on: the (number, found_number)
\* it leaves in the object
RECURSIVE GetNumberFrom(_, _)
GetNumberFrom(file_name, k) ==
    IF k > NumPatterns THEN [number |-> None, found_number |-> << >>]
    ELSE LET m == PatternSearch(k, file_name)
         IN  IF ~m.ok THEN GetNumberFrom(file_name, k + 1)
             ELSE LET block  == Slice(file_name, m.bs, m.be)
                      number == Slice(file_name, m.ns, m.ne)
                  IN  IF IsYear(number) THEN GetNumberFrom(file_name, k + 1)
                      ELSE [number |-> StrInt(number), found_number |-> block]

\* BDFile.get_number
get_number(file_name) == GetNumberFrom(file_name, 1)


\* ALREADY_FORMATTED_PATTERN.search: (.*) #\d+.* ; group(1) is greedy, so it
\* ends before the last " #<digit>" of the name
AlreadyFormatted(s) ==
    LET hits == {i \in 1..Len(s) : HasAt(s, i, <<" ", "#">>) /\ DigitRunEnd(s, i + 2) >= i + 2}
    IN  IF hits = {} THEN NoMatch
        ELSE LET last == CHOOSE i \in hits : \A j \in hits : j <= i
             IN  Matched(1, last - 1, 1, last - 1)

\* the last position of the greedy [\w '&.-]+ starting at i (i - 1 when empty)
RECURSIVE TitleRunEnd(_, _)
TitleRunEnd(s, i) ==
    IF i <= Len(s) /\ s[i] \in TitleChars THEN TitleRunEnd(s, i + 1) ELSE i - 1

\* TITLE_PATTERNS[0].search: /?([a-zA-Z][\w '&.-]+) ; the optional slash
\* never moves group(1), which starts at the first letter followed by a
\* character of the class
TitlePatternSearch(s) ==
    LET hits == {i \in 1..Len(s) : s[i] \in AsciiLetters /\ TitleRunEnd(s, i + 1) >= i + 1}
    IN  IF hits = {} THEN NoMatch
        ELSE LET first == CHOOSE i \in hits : \A j \in hits : i <= j
             IN  Matched(first, TitleRunEnd(s, first + 1), first, TitleRunEnd(s, first + 1))

\* replace_double_spaces: re.sub(r"\s{2,}", " ", string)
RECURSIVE replace_double_spaces(_)
replace_double_spaces(s) ==
    IF s = << >> THEN << >>
    ELSE IF Head(s) \in Whitespace /\ SpaceRunEnd(s, 1) >= 2
         THEN <<" ">> \o replace_double_spaces(Slice(s, SpaceRunEnd(s, 1) + 1, Len(s)))
         ELSE <<Head(s)>> \o replace_double_spaces(Tail(s))

\* the suffixes get_title removes, in order; the fourth is the corrupted dash
\* of the source, three non-ASCII characters named here by their code points
TitleSuffixes ==
    << <<"-">>, <<"_">>, <<":">>, <<"U+00E2", "U+20AC", "U+201C">>, <<".">> >>

RECURSIVE StripSuffixes(_, _)
StripSuffixes(name, k) ==
    IF k > Len(TitleSuffixes) THEN name
    ELSE StripSuffixes(Strip(RemoveSuffix(name, TitleSuffixes[k])), k + 1)

\* one candidate name of get_title, cleaned up to the point of the pattern search
CleanName(name, found_number) ==
    LET cut  == IF found_number # << >>
                THEN Strip(SplitFirst(name, found_number)) ELSE name
        head == Strip(SplitFirst(cut, <<" ", "-", " ">>))
    IN  StripSuffixes(replace_double_spaces(head), 1)

\* the loop of get_title over [file_name, *parents]
RECURSIVE TitleFromNames(_, _)
TitleFromNames(names, found_number) ==
    IF names = << >> THEN << >>
    ELSE LET m == TitlePatternSearch(CleanName(Head(names), found_number))
         IN  IF m.ok THEN Slice(CleanName(Head(names), found_number), m.ns, m.ne)
             ELSE TitleFromNames(Tail(names), found_number)

\* BDFile.get_title: the regex_suggested_title it leaves (empty when none)
get_title(file_name, parents, found_number) ==
    IF AlreadyFormatted(file_name).ok
    THEN Slice(file_name, 1, AlreadyFormatted(file_name).be)
    ELSE TitleFromNames(<<file_name>> \o parents, found_number)

\* BDFile.__post_init__: the object built for a path
BDFile(file_name, parents) ==
    [file_name             |-> file_name,
     parents               |-> parents,
     number                |-> get_number(file_name).number,
     found_number          |-> get_number(file_name).found_number,
     ai_suggested_title    |-> << >>,
     regex_suggested_title |-> get_title(file_name, parents,
                                         get_number(file_name).found_number)]

\* BDFile.title
Title(file) ==
    IF file.ai_suggested_title # << >> THEN file.ai_suggested_title
    ELSE file.regex_suggested_title


(***************************************************************************)
(* Bounds and the inputs drawn from them                                    *)
(***************************************************************************)
\* the longest file stem of the BDFile specification, in tokens
MaxTokens == 4

\* the most files of a batch
MaxFiles == 2

\* the most candidates a catalog search returns
MaxCandidates == 2

\* the most entries of a series page's album list
MaxAlbums == 2

\* how many times the operator may choose "other" in one resolution
MaxRetries == 1

\* the most *.cbz files under BD_ROOT
MaxBooks == 2

\* the most entries of a series page's list of linked series
MaxLinks == 1

\* the most spaces between the leading phrase of a title and what follows
MaxGap == 2

\* the longest text of accented characters
MaxAccentLen == 3

\* the pieces file stems are made of
StemTokens ==
    { <<" ">>, <<"T">>, <<" ", "T">>, <<"0">>, <<"4">>, <<"1", "9">>,
      <<"2", "0", "1", "9">>, <<"a">>, <<"-">>, <<" ", "-">> }

RECURSIVE StemsUpTo(_)
StemsUpTo(n) ==
    IF n = 0 THEN { << >> }
    ELSE StemsUpTo(n - 1) \cup {s \o tok : s \in StemsUpTo(n - 1), tok \in StemTokens}

Stems == StemsUpTo(MaxTokens)

\* the ancestor directory names of a file, nearest first; the scan root
\* itself comes last, with the empty name
NoAncestors == << << >> >>

ParentChoices == { NoAncestors, << <<"a", "b">>, << >> >> }

\* all sequences over S of length at most n
SeqsUpTo(S, n) == UNION {[1..m -> S] : m \in 0..n}

S_Blacksad == <<"B", "l", "a", "c", "k", "s", "a", "d">>

S_BLACKSAD == <<"B", "L", "A", "C", "K", "S", "A", "D">>

S_Blake == <<"B", "l", "a", "k", "e">>

S_4 == <<"4">>

\* the files a scan may find: (stem, ancestors)
File_BlacksadT04 ==
    [file_name |-> S_Blacksad \o <<" ", "-", " ", "T", "0", "4", " ", "-", " ",
                                   "A", "m", "a", "r", "i", "l", "l", "o">>,
     parents   |-> NoAncestors]

File_Blacksad == [file_name |-> S_Blacksad, parents |-> NoAncestors]

File_12 == [file_name |-> <<"1", "2">>, parents |-> NoAncestors]

ScanFiles == {File_BlacksadT04, File_Blacksad, File_12}

\* what recurse_find_cbz may return
Batches == SeqsUpTo(ScanFiles, MaxFiles)

\* the display titles of the catalog
CatalogTitles == {S_Blacksad, S_BLACKSAD}

\* the label texts of the entries of an album list
StubLabels == { <<"4", ".">>, <<"H", "S">> }

\* the values a detail page may give after "Tome :"
TomeTexts == { <<"4">>, <<"5">> }

\* the titles and wanted numbers a caller of scrape may pass
CallerTitles == {S_Blacksad, Lower(S_Blake), << >>}

CallerNumbers ==
    {NoneList, << >>, << S_4 >>, << <<"H", "S">> >>, << <<"h", "s">> >>,
     << S_4, <<"h", "s">> >>, << S_4, <<"H", "S">> >>}

\* the titles the operator may type after choosing "other"
OperatorTitles == {S_Blacksad, S_Blake}


(***************************************************************************)
(* State                                                                    *)
(***************************************************************************)
VARIABLES
    pc,           \* where the program is
    exc,          \* the exception that ended the run, "" when none
    caller,       \* who called scrape: "main" or "api" (a direct caller)
    pfile,        \* the BDFile under construction (BDFile specification)
    overwrite,    \* main: the --overwrite option
    paths,        \* main: what recurse_find_cbz found
    files,        \* main: the BDFile objects of get_titles
    mapped,       \* main: mapped_files, in insertion order
    bucket,       \* main: the index of the current item of mapped_files
    zips,         \* main: the container of each file, and what was left beside it
    series_name,  \* search_for_series: its argument
    numbers,      \* scrape: its argument
    series,       \* search_for_series: the candidates search_for_title returned
    serie,        \* scrape: the resolved series, NoSerie when none
    albums,       \* scrape: the stubs kept for the detail stage
    infos,        \* scrape: the records collected so far, then its result
    k,            \* the index of the current album (scrape's loop, then main's)
    session,      \* scrape: the requests.Session, "open" or "closed"
    depth,        \* search_for_series: how deep the recursion is
    choice,       \* search_for_series: what the operator typed, None before
    listed,       \* scrape: the stubs get_albums returned, before the filter
    fetched,      \* history: the urls of the detail pages requested by this run
    books,        \* series.py: the *.cbz files under BD_ROOT, in rglob order
    book,         \* series.py: the index of the current file
    treated,      \* series.py: treated_folders
    linked,       \* series.py: LINKED_SERIES, the linked ids by series id
    series_url,   \* series.py: the series page scrape_info_from_url goes on to
    netlog,       \* history: the requests and sleeps of the linking run
    raw_text,     \* sanitize_series_name: its argument
    reverted,     \* sanitize_series_name: the title after revert_determiner
    search_key,   \* sanitize_series_name: its result
    soup,         \* get_album_info: the detail page
    info,         \* get_album_info: the index of the current block of the page
    detail,       \* get_album_info: the album record it fills
    response_content, \* extract_json: the text of the response
    start_marker, \* extract_json: its second argument
    end_marker,   \* extract_json: its third argument
    to_return,    \* extract_json: its result
    frames        \* extract_json: the calls of itself that have not returned

vars ==
    <<pc, exc, caller, pfile, overwrite, paths, files, mapped, bucket, zips,
      series_name, numbers, series, serie, albums, infos, k, session, depth,
      choice, listed, fetched, books, book, treated, linked, series_url, netlog,
      raw_text, reverted, search_key, soup, info, detail,
      response_content, start_marker, end_marker, to_return, frames>>

mainVars == <<overwrite, paths, files, mapped, bucket, zips>>

\* the locals of scrape and of search_for_series
frameVars == <<series_name, numbers, series, serie, albums, depth, listed>>

scrapeVars == <<frameVars, infos, k, session, choice, fetched>>

\* the locals of scrape when it is not running
NoFrame ==
    /\ series_name = << >>
    /\ numbers = NoneList
    /\ series = << >>
    /\ serie = NoSerie
    /\ albums = << >>
    /\ depth = 0
    /\ listed = << >>

ScrapeIdle ==
    /\ NoFrame
    /\ infos = << >>
    /\ k = 1
    /\ session = "closed"
    /\ choice = None
    /\ fetched = {}

linkVars == <<books, book, treated, linked, series_url, netlog>>

\* the state of the functions specified on their own
sanitizeVars == <<raw_text, reverted, search_key>>

pageVars == <<soup, info, detail>>

jsonVars == <<response_content, start_marker, end_marker, to_return, frames>>

unitVars == <<sanitizeVars, pageVars, jsonVars>>

JsonIdle ==
    /\ response_content = << >>
    /\ start_marker = "["
    /\ end_marker = "]"
    /\ to_return = << >>
    /\ frames = 0

PageIdle ==
    /\ soup = [div |-> FALSE, content |-> << >>]
    /\ info = 1
    /\ detail = << >>

UnitIdle ==
    /\ raw_text = << >>
    /\ reverted = << >>
    /\ search_key = << >>
    /\ PageIdle
    /\ JsonIdle

MainIdle ==
    /\ overwrite = FALSE
    /\ paths = << >>
    /\ files = << >>
    /\ mapped = << >>
    /\ bucket = 1
    /\ zips = << >>

LinkIdle ==
    /\ books = << >>
    /\ book = 1
    /\ treated = {}
    /\ linked = [x \in {} |-> << >>]
    /\ series_url = ""
    /\ netlog = << >>

(***************************************************************************)
(* file_name.py: constructing one BDFile                                    *)
(***************************************************************************)
\* BDFile.__post_init__ up to the call of get_number
NewFile(file_name, parents) ==
    [file_name             |-> file_name,
     parents               |-> parents,
     number                |-> None,
     found_number          |-> << >>,
     ai_suggested_title    |-> << >>,
     regex_suggested_title |-> << >>]

InitBDFile ==
    /\ pc = "post_init"
    /\ exc = ""
    /\ caller = "api"
    /\ \E s \in Stems, ps \in ParentChoices : pfile = NewFile(s, ps)
    /\ MainIdle
    /\ ScrapeIdle
    /\ LinkIdle
    /\ UnitIdle

\* self.get_number()
GetNumber ==
    /\ pc = "post_init"
    /\ pfile' = [pfile EXCEPT !.number = get_number(pfile.file_name).number,
                              !.found_number = get_number(pfile.file_name).found_number]
    /\ pc' = "get_title"
    /\ UNCHANGED <<exc, caller, mainVars, scrapeVars, linkVars, unitVars>>

\* self.get_title()
GetTitle ==
    /\ pc = "get_title"
    /\ pfile' = [pfile EXCEPT !.regex_suggested_title =
                     get_title(pfile.file_name, pfile.parents, pfile.found_number)]
    /\ pc' = "constructed"
    /\ UNCHANGED <<exc, caller, mainVars, scrapeVars, linkVars, unitVars>>

NextBDFile == GetNumber \/ GetTitle

SpecBDFile == InitBDFile /\ [][NextBDFile]_vars

(***************************************************************************)
(* scraper.py: search_for_series, get_albums, get_album_info, scrape        *)
(***************************************************************************)
\* str.isdigit
IsDigitStr(s) == s # << >> /\ \A i \in 1..Len(s) : s[i] \in Digits

DigitValue(c) ==
    CASE c = "0" -> 0 [] c = "1" -> 1 [] c = "2" -> 2 [] c = "3" -> 3 [] c = "4" -> 4
      [] c = "5" -> 5 [] c = "6" -> 6 [] c = "7" -> 7 [] c = "8" -> 8 [] c = "9" -> 9

\* int(s) for a run of decimal digits
RECURSIVE IntOf(_)
IntOf(s) ==
    IF s = << >> THEN 0 ELSE 10 * IntOf(Slice(s, 1, Len(s) - 1)) + DigitValue(s[Len(s)])

\* what the operator may type at "Choose a number"
OperatorChoices == { <<"x">>, << >>, <<"0">>, <<"1">>, <<"2">>, <<"3">>, <<"4">>, <<"5">> }

\* what search_for_title may return: Serie(title=label, url=...id)
SearchResults ==
    {[i \in 1..Len(ts) |-> [title |-> ts[i], url |-> i]] :
        ts \in SeqsUpTo(CatalogTitles, MaxCandidates)}

\* a faulty first-match: the titles are compared as they stand
FirstEqualExact(candidates, name) ==
    LET hits == {i \in 1..Len(candidates) : candidates[i].title = name}
    IN  IF hits = {} THEN NoSerie
        ELSE candidates[CHOOSE i \in hits : \A j \in hits : i <= j]

\* next((x for x in series if x.title.lower() == series_name.lower()), None)
FirstEqual(candidates, name) ==
    LET hits == {i \in 1..Len(candidates) : Lower(candidates[i].title) = Lower(name)}
    IN  IF hits = {} THEN NoSerie
        ELSE candidates[CHOOSE i \in hits : \A j \in hits : i <= j]

\* a faulty exit by exception that leaves the session as it is
RaiseKeepsSession(e) ==
    /\ exc' = e
    /\ session' = session
    /\ pc' = IF caller = "main" THEN "crashed" ELSE "raised"

\* an exception leaves scrape through the with statement, which closes the
\* session, and nothing catches it in main
Raise(e) ==
    /\ exc' = e
    /\ session' = "closed"
    /\ pc' = IF caller = "main" THEN "crashed" ELSE "raised"

\* scrape returns result, its locals are gone and the with statement has
\* closed the session; main goes on to its loop over the albums
Return(result) ==
    /\ infos' = result
    /\ session' = "closed"
    /\ k' = 1
    /\ pc' = IF caller = "main" THEN "for_album" ELSE "returned"
    /\ series_name' = << >>
    /\ numbers' = NoneList
    /\ series' = << >>
    /\ serie' = NoSerie
    /\ albums' = << >>
    /\ depth' = 0
    /\ listed' = << >>

\* scrape(title, nums) up to the request of search_for_title
EnterScrape(title, nums) ==
    /\ session' = "open"
    /\ series_name' = title
    /\ numbers' = nums
    /\ series' = << >>
    /\ serie' = NoSerie
    /\ albums' = << >>
    /\ infos' = << >>
    /\ k' = 1
    /\ depth' = 0
    /\ choice' = None
    /\ listed' = << >>
    /\ fetched' = {}
    /\ pc' = "search_for_title"

\* search_for_series from the answer of search_for_title to the prompt
SearchForTitle ==
    /\ pc = "search_for_title"
    /\ choice' = None
    /\ \/ /\ Raise("RequestException")
          /\ UNCHANGED <<series, serie>>
       \/ \E result \in SearchResults :
            /\ series' = result
            /\ serie' = FirstEqual(result, series_name)
            /\ pc' = IF FirstEqual(result, series_name) # NoSerie
                     THEN "get_albums" ELSE "choose"
            /\ UNCHANGED <<exc, session>>
    /\ UNCHANGED <<caller, pfile, linkVars, unitVars, mainVars, series_name, numbers, albums, infos, k,
                   depth, listed, fetched>>

\* the value of index when the menu is printed
MenuIndex == Len(series)

\* if not choice.isdigit(): return None, and scrape returns []
ChooseInvalid ==
    /\ pc = "choose"
    /\ \E typed \in OperatorChoices :
         /\ ~IsDigitStr(typed)
         /\ choice' = typed
    /\ Return(<< >>)
    /\ UNCHANGED <<exc, caller, pfile, linkVars, unitVars, mainVars, fetched>>

\* choice_ == index + 1: read a name and call search_for_series with it
ChooseOther ==
    /\ pc = "choose"
    /\ depth < MaxRetries
    /\ \E typed \in OperatorChoices :
         /\ IsDigitStr(typed)
         /\ IntOf(typed) = MenuIndex + 1
         /\ choice' = typed
    /\ \E name \in OperatorTitles : series_name' = name
    /\ depth' = depth + 1
    /\ pc' = "search_for_title"
    /\ UNCHANGED <<exc, caller, pfile, linkVars, unitVars, mainVars, numbers, series, serie, albums, infos,
                   k, session, listed, fetched>>

\* choice_ == index + 2: return None, and scrape returns []
ChooseQuit ==
    /\ pc = "choose"
    /\ \E typed \in OperatorChoices :
         /\ IsDigitStr(typed)
         /\ IntOf(typed) = MenuIndex + 2
         /\ choice' = typed
    /\ Return(<< >>)
    /\ UNCHANGED <<exc, caller, pfile, linkVars, unitVars, mainVars, fetched>>

\* a faulty indexing: the list is read one position too early
PyIndexOneBased(n, at) ==
    IF at \in 1..n THEN at
    ELSE IF at < 0 /\ -at <= n THEN n + at + 1
    ELSE 0

\* list.__getitem__(at) with the indexing of a Python list: the position
\* (1-based) read, 0 when it raises IndexError
PyIndex(n, at) ==
    IF at \in 0..(n - 1) THEN at + 1
    ELSE IF at < 0 /\ -at <= n THEN n + at + 1
    ELSE 0

\* else: return series[choice_ - 1]
ChooseCandidate ==
    /\ pc = "choose"
    /\ \E typed \in OperatorChoices :
         /\ IsDigitStr(typed)
         /\ IntOf(typed) \notin {MenuIndex + 1, MenuIndex + 2}
         /\ choice' = typed
         /\ IF PyIndex(Len(series), IntOf(typed) - 1) # 0
            THEN /\ serie' = series[PyIndex(Len(series), IntOf(typed) - 1)]
                 /\ pc' = "get_albums"
                 /\ UNCHANGED <<exc, session>>
            ELSE /\ Raise("IndexError")
                 /\ UNCHANGED serie
    /\ UNCHANGED <<caller, pfile, linkVars, unitVars, mainVars, series_name, numbers, series, albums, infos,
                   k, depth, listed, fetched>>

\* Album(url=..., series=..., number=...): the fields the model follows
Album(url, series_title, number) ==
    [url |-> url, web |-> url, series |-> series_title, number |-> number]

\* the stubs get_albums builds from the labels of an album list
StubsOf(labels, series_title) ==
    [i \in 1..Len(labels) |->
        Album(i, series_title, RemoveSuffix(Strip(labels[i]), <<".">>))]

\* the single-album page: Album(title=..., url=..., series=..., genre=...),
\* whose number keeps its default ""
SingleStub(series_title) == << Album(1, series_title, << >>) >>

\* a faulty membership test: the number of the stub is not lower-cased
WantedAsGiven(album, nums) == \E i \in 1..Len(nums) : nums[i] = album.number

\* str(x.number).lower() in numbers
Wanted(album, nums) == \E i \in 1..Len(nums) : nums[i] = Lower(album.number)

\* [x for x in albums if str(x.number).lower() in numbers]
RECURSIVE KeepWanted(_, _)
KeepWanted(stubs, nums) ==
    IF stubs = << >> THEN << >>
    ELSE IF Wanted(Head(stubs), nums)
         THEN <<Head(stubs)>> \o KeepWanted(Tail(stubs), nums)
         ELSE KeepWanted(Tail(stubs), nums)

\* a faulty scrape that filters nothing
KeepAll(stubs, nums) == stubs

\* the albums scrape sends to the detail stage: if numbers: albums = [...]
FilterAlbums(stubs, nums) ==
    IF nums # NoneList /\ nums # << >> THEN KeepWanted(stubs, nums) ELSE stubs

\* scrape from get_albums to the first detail request; search_for_series
\* has returned and its locals are gone
GetAlbums ==
    /\ pc = "get_albums"
    /\ \/ /\ Raise("RequestException")
          /\ UNCHANGED <<frameVars, infos, k, choice>>
       \/ \* neither album-list nor single-album markup
          /\ Raise("ValueError")
          /\ UNCHANGED <<frameVars, infos, k, choice>>
       \/ \E stubs \in {StubsOf(labels, serie.title) :
                            labels \in SeqsUpTo(StubLabels, MaxAlbums)}
                       \cup {SingleStub(serie.title)} :
            /\ choice' = None
            /\ IF FilterAlbums(stubs, numbers) = << >>
               THEN Return(<< >>)
               ELSE /\ listed' = stubs
                    /\ albums' = FilterAlbums(stubs, numbers)
                    /\ series_name' = << >>
                    /\ series' = << >>
                    /\ depth' = 0
                    /\ pc' = "get_album_info"
                    /\ k' = 1
                    /\ UNCHANGED <<numbers, serie, infos, session>>
            /\ UNCHANGED exc
    /\ UNCHANGED <<caller, pfile, linkVars, unitVars, mainVars, fetched>>

\* what a detail page gives: no content block, or the labels of the block;
\* tome is the text after "Tome :", None when the page has no such label
DetailPages ==
    {[content |-> FALSE, tome |-> None]}
        \cup {[content |-> TRUE, tome |-> x] : x \in TomeTexts \cup {None}}

\* get_album_info on a page with a content block
AlbumInfo(album, page) ==
    IF page.tome # None THEN [album EXCEPT !.number = Strip(page.tome)] ELSE album

\* one turn of the loop of scrape: get_album_info(album, session)
GetAlbumInfo ==
    /\ pc = "get_album_info"
    /\ fetched' = fetched \cup {albums[k].url}
    /\ \/ /\ Raise("RequestException")
          /\ UNCHANGED <<frameVars, infos, k>>
       \/ \E page \in DetailPages :
            LET result == IF page.content
                          THEN Append(infos, AlbumInfo(albums[k], page))
                          ELSE infos
            IN  IF k = Len(albums)
                THEN /\ Return(result)
                     /\ UNCHANGED exc
                ELSE /\ infos' = result
                     /\ k' = k + 1
                     /\ UNCHANGED <<pc, exc, session, frameVars>>
    /\ UNCHANGED <<caller, pfile, linkVars, unitVars, mainVars, choice>>

\* a direct call of scrape(title, numbers)
InitScrape ==
    /\ pc = "call"
    /\ exc = ""
    /\ caller = "api"
    /\ pfile = NewFile(<< >>, NoAncestors)
    /\ MainIdle
    /\ ScrapeIdle
    /\ LinkIdle
    /\ UnitIdle

CallScrape ==
    /\ pc = "call"
    /\ \E title \in CallerTitles, nums \in CallerNumbers : EnterScrape(title, nums)
    /\ UNCHANGED <<exc, caller, pfile, linkVars, unitVars, mainVars>>

NextScrape ==
    \/ CallScrape
    \/ SearchForTitle
    \/ ChooseInvalid
    \/ ChooseOther
    \/ ChooseQuit
    \/ ChooseCandidate
    \/ GetAlbums
    \/ GetAlbumInfo

SpecScrape == InitScrape /\ [][NextScrape]_vars

(***************************************************************************)
(* main.py: add_file_to_zip, map_by_titles, main                            *)
(***************************************************************************)
\* Album.to_dict: the elements of the record, by their camel-case names
to_dict(album) == [Series |-> album.series, Number |-> album.number, Web |-> album.web]

\* no text
NoXml == [Series |-> None, Number |-> None, Web |-> 0]

\* Album.to_xml: the text, or the exception of XML_SCHEMA.validate; whether
\* the schema accepts the text is the schema's decision (valid)
to_xml(album, valid) ==
    IF valid THEN [raised |-> FALSE, text |-> to_dict(album)]
    ELSE [raised |-> TRUE, text |-> NoXml]

\* the container of a file before the run touches it
NewZip ==
    [comicinfo |-> 0,       \* ComicInfo.xml entries in the container
     xml       |-> NoXml,   \* the record last written into it
     pages     |-> TRUE,    \* it still holds the pages it had
     temp      |-> FALSE,   \* a <stem>_tempBDScraper file lies beside it
     scraped   |-> FALSE,   \* it was moved to the Scraped folder
     stray     |-> FALSE]   \* a new container lies at the path it was moved from

\* add_file_to_zip(zip_file, file, overwrite=ow) on container z, which had a
\* ComicInfo.xml before the run iff had: the container afterwards, and
\* whether to_xml raised
add_file_to_zip(z, album, ow, had, valid) ==
    LET before == IF z.scraped THEN 0
                  ELSE IF z.comicinfo > 0 \/ had THEN 1 ELSE 0
        out    == to_xml(album, valid)
    IN  IF before > 0 /\ ow
        THEN \* the temporary container is created before to_xml is called
             IF out.raised
             THEN [raised |-> TRUE,
                   zip |-> [z EXCEPT !.comicinfo = before, !.temp = TRUE]]
             ELSE [raised |-> FALSE,
                   zip |-> [z EXCEPT !.comicinfo = 1, !.xml = out.text,
                                     !.temp = FALSE, !.scraped = TRUE]]
        ELSE \* zip_.writestr("ComicInfo.xml", file.to_xml())
             IF out.raised
             THEN [raised |-> TRUE,
                   zip |-> [z EXCEPT !.comicinfo = IF z.scraped THEN z.comicinfo
                                                   ELSE before,
                                     !.stray = z.scraped]]
             ELSE [raised |-> FALSE,
                   zip |-> [z EXCEPT !.comicinfo = before + 1, !.xml = out.text,
                                     !.pages = ~z.scraped, !.scraped = TRUE]]

\* the keys of mapped_files, in insertion order
RECURSIVE TitlesInOrder(_, _)
TitlesInOrder(fs, seen) ==
    IF fs = << >> THEN << >>
    ELSE IF Title(Head(fs)) \in seen THEN TitlesInOrder(Tail(fs), seen)
         ELSE <<Title(Head(fs))>> \o TitlesInOrder(Tail(fs), seen \cup {Title(Head(fs))})

\* the indices of the files of fs whose title is title, in order
RECURSIVE IndicesOf(_, _, _)
IndicesOf(fs, title, i) ==
    IF i > Len(fs) THEN << >>
    ELSE IF Title(fs[i]) = title THEN <<i>> \o IndicesOf(fs, title, i + 1)
         ELSE IndicesOf(fs, title, i + 1)

\* map_by_titles(files): mapped_files.setdefault(file_.title, []).append(file_)
map_by_titles(fs) ==
    [b \in 1..Len(TitlesInOrder(fs, {})) |->
        [title |-> TitlesInOrder(fs, {})[b],
         files |-> IndicesOf(fs, TitlesInOrder(fs, {})[b], 1)]]

\* [str(file_.number).lower() for file_ in files if file_.number is not None]
RECURSIVE NumbersOf(_, _)
NumbersOf(fs, idx) ==
    IF idx = << >> THEN << >>
    ELSE IF fs[Head(idx)].number # None
         THEN <<Lower(fs[Head(idx)].number)>> \o NumbersOf(fs, Tail(idx))
         ELSE NumbersOf(fs, Tail(idx))

\* next(file_ for file_ in files if file_.number.lower() == album.number.lower())
RECURSIVE FindFile(_, _, _)
FindFile(fs, idx, album) ==
    IF idx = << >> THEN [raised |-> "StopIteration", file |-> 0]
    ELSE IF fs[Head(idx)].number = None
         THEN [raised |-> "AttributeError", file |-> 0]
         ELSE IF Lower(fs[Head(idx)].number) = Lower(album.number)
              THEN [raised |-> "", file |-> Head(idx)]
              ELSE FindFile(fs, Tail(idx), album)

InitMain ==
    /\ pc = "get_titles"
    /\ exc = ""
    /\ caller = "main"
    /\ pfile = NewFile(<< >>, NoAncestors)
    /\ overwrite \in BOOLEAN
    /\ paths \in Batches
    /\ files = << >>
    /\ mapped = << >>
    /\ bucket = 1
    /\ zips = << >>
    /\ ScrapeIdle
    /\ LinkIdle
    /\ UnitIdle

\* main from get_titles to the loop over mapped_files
GetTitles ==
    /\ pc = "get_titles"
    /\ files' = [i \in 1..Len(paths) |-> BDFile(paths[i].file_name, paths[i].parents)]
    /\ zips' = [i \in 1..Len(paths) |-> NewZip]
    /\ IF paths = << >>
       THEN /\ pc' = "done"
            /\ mapped' = << >>
       ELSE /\ pc' = "for_title"
            /\ mapped' = map_by_titles(files')
    /\ bucket' = 1
    /\ UNCHANGED <<exc, caller, pfile, linkVars, unitVars, overwrite, paths, scrapeVars>>

\* for title, files in mapped_files.items(): numbers = [...]; scrape(title, numbers)
ForTitle ==
    /\ pc = "for_title"
    /\ IF bucket > Len(mapped)
       THEN /\ pc' = "done"
            /\ UNCHANGED scrapeVars
       ELSE EnterScrape(mapped[bucket].title, NumbersOf(files, mapped[bucket].files))
    /\ UNCHANGED <<exc, caller, pfile, linkVars, unitVars, mainVars>>

\* for album in albums: find the file, add_file_to_zip(...)
ForAlbum ==
    /\ pc = "for_album"
    /\ IF k > Len(infos)
       THEN /\ pc' = "for_title"
            /\ bucket' = bucket + 1
            /\ UNCHANGED <<exc, zips, k>>
       ELSE LET found == FindFile(files, mapped[bucket].files, infos[k])
            IN  IF found.raised # ""
                THEN /\ exc' = found.raised
                     /\ pc' = "crashed"
                     /\ UNCHANGED <<bucket, zips, k>>
                ELSE \E had \in BOOLEAN, valid \in BOOLEAN :
                       LET out == add_file_to_zip(zips[found.file], infos[k], overwrite,
                                                  had, valid)
                       IN  /\ zips' = [zips EXCEPT ![found.file] = out.zip]
                           /\ IF out.raised
                              THEN /\ exc' = "XMLSchemaValidationError"
                                   /\ pc' = "crashed"
                                   /\ UNCHANGED k
                              ELSE /\ k' = k + 1
                                   /\ UNCHANGED <<pc, exc>>
                           /\ UNCHANGED bucket
    /\ UNCHANGED <<caller, pfile, linkVars, unitVars, overwrite, paths, files, mapped, frameVars, infos,
                   session, choice, fetched>>

Next ==
    \/ GetTitles
    \/ ForTitle
    \/ SearchForTitle
    \/ ChooseInvalid
    \/ ChooseOther
    \/ ChooseQuit
    \/ ChooseCandidate
    \/ GetAlbums
    \/ GetAlbumInfo
    \/ ForAlbum

Init == InitMain

Spec == Init /\ [][Next]_vars


(***************************************************************************)
(* series.py: the series-linking run                                        *)
(***************************************************************************)
\* time.sleep(5 + 0.001 * random.randint(0, 1000)): the base delay, in
\* seconds, and the largest jitter, in milliseconds
BaseDelay == 5

MaxJitter == 1000

Folders == {"A", "B"}

\* what get_url_from_book finds in a book: its ComicInfo.xml is missing
\* (zip_.open raises KeyError), the file is no zip, the record has no Web
\* element, the Web element names another site, or a bedetheque page
BookKinds == {"no_comicinfo", "bad_zip", "no_web", "other_site", "bedetheque"}

LinkBooks == [folder : Folders, kind : BookKinds]

\* hrefs that match SERIES_URL_PATTERN
SeriesUrls == {"serie-1", "serie-2"}

\* what the detail page gives: no h1, an h1 without a link, a link without
\* href, a link to another site, or a link to a bedetheque page, which is a
\* series page or not
DetailKinds == {"no_h1", "no_anchor", "no_href", "other_href"}

DetailHrefs == SeriesUrls \cup {"other-page"}

Request(what, blocked) == [what |-> what, blocked |-> blocked, ms |-> 0]

\* a faulty sleep of the jitter alone
SleepJitterOnly(jitter) == [what |-> "sleep", blocked |-> FALSE, ms |-> jitter]

Sleep(jitter) == [what |-> "sleep", blocked |-> FALSE, ms |-> 1000 * BaseDelay + jitter]

\* the end of a turn of main's loop: both files are dumped and the folder
\* is marked treated
EndOfTurn ==
    /\ treated' = treated \cup {books[book].folder}
    /\ book' = book + 1
    /\ series_url' = ""
    /\ pc' = "for_zip_file"
    /\ UNCHANGED exc

Crash(e) ==
    /\ exc' = e
    /\ pc' = "crashed"
    /\ UNCHANGED <<book, treated, series_url, linked>>

\* LINKED_SERIES after main has recorded (series_id, title, links)
Record(id, links) ==
    IF id \in DOMAIN linked
    THEN [linked EXCEPT ![id] = @ \o links]
    ELSE [x \in DOMAIN linked \cup {id} |-> IF x = id THEN links ELSE linked[x]]

InitLink ==
    /\ pc = "for_zip_file"
    /\ exc = ""
    /\ caller = "main"
    /\ pfile = NewFile(<< >>, NoAncestors)
    /\ MainIdle
    /\ ScrapeIdle
    /\ books \in SeqsUpTo(LinkBooks, MaxBooks)
    /\ book = 1
    /\ treated \in SUBSET Folders
    /\ linked = [x \in {} |-> << >>]
    /\ series_url = ""
    /\ netlog = << >>
    /\ UnitIdle

\* one turn of main's loop, up to the request of the series page
ForZipFile ==
    /\ pc = "for_zip_file"
    /\ IF book > Len(books)
       THEN /\ pc' = "done"
            /\ UNCHANGED <<exc, book, treated, series_url, linked, netlog>>
       ELSE IF books[book].folder \in treated
       THEN /\ book' = book + 1
            /\ UNCHANGED <<pc, exc, treated, series_url, linked, netlog>>
       ELSE IF books[book].kind = "no_comicinfo"
       THEN /\ Crash("KeyError")
            /\ UNCHANGED netlog
       ELSE IF books[book].kind # "bedetheque"
       THEN /\ EndOfTurn
            /\ UNCHANGED <<linked, netlog>>
       ELSE \* scrape_info_from_url(url): page = requests.get(url)
            \/ /\ netlog' = Append(netlog, Request("detail", FALSE))
               /\ Crash("RequestException")
            \/ \* "Votre IP a ete bloquee" in str(page.content)
               /\ netlog' = Append(netlog, Request("detail", TRUE))
               /\ Crash("RuntimeError")
            \/ \E jitter \in {0, MaxJitter} :
                 /\ netlog' = netlog \o <<Request("detail", FALSE), Sleep(jitter)>>
                 /\ \/ \E kind \in DetailKinds :
                         IF kind = "no_anchor"
                         THEN Crash("AttributeError")
                         ELSE EndOfTurn /\ UNCHANGED linked
                    \/ \E href \in DetailHrefs :
                         /\ series_url' = href
                         /\ pc' = "series_page"
                         /\ UNCHANGED <<exc, book, treated, linked>>
    /\ UNCHANGED <<caller, pfile, mainVars, scrapeVars, unitVars, books>>

\* scrape_info_from_url from the request of the series page, and the rest
\* of the turn of main's loop
SeriesPage ==
    /\ pc = "series_page"
    /\ \/ /\ netlog' = Append(netlog, Request("series", FALSE))
          /\ Crash("RequestException")
       \/ \* the page holds the IP-block marker, which nothing looks for, and
          \* no linked-series block
          /\ netlog' = Append(netlog, Request("series", TRUE))
          /\ EndOfTurn
          /\ UNCHANGED linked
       \/ \* no linked-series block
          /\ netlog' = Append(netlog, Request("series", FALSE))
          /\ EndOfTurn
          /\ UNCHANGED linked
       \/ \E links \in SeqsUpTo(SeriesUrls, MaxLinks) :
            /\ netlog' = Append(netlog, Request("series", FALSE))
            /\ IF series_url \in SeriesUrls
               THEN /\ linked' = Record(series_url, links)
                    /\ EndOfTurn
               ELSE \* SERIES_URL_PATTERN.match(series_url) is None
                    Crash("AttributeError")
    /\ UNCHANGED <<caller, pfile, mainVars, scrapeVars, unitVars, books>>

NextLink == ForZipFile \/ SeriesPage

SpecLink == InitLink /\ [][NextLink]_vars


(***************************************************************************)
(* scraper.py: remove_accents, revert_determiner, sanitize_series_name      *)
(***************************************************************************)
\* the substitutions of remove_accents, in order; a character outside ASCII
\* is named by its code point
AccentTable ==
    << [class |-> {"U+00E0", "U+00E1", "U+00E2", "U+00E3", "U+00E4", "U+00E5", "U+00C0", "U+00C1", "U+00C2", "U+00C4", "U+00C5", "U+00C3"},
        repl  |-> <<"a">>],
       [class |-> {"U+00E8", "U+00E9", "U+00EA", "U+00EB", "U+00C9", "U+00C8", "U+00CA", "U+00CB"},
        repl  |-> <<"e">>],
       [class |-> {"U+00E7", "U+00C7"},
        repl  |-> <<"c">>],
       [class |-> {"U+00EC", "U+00ED", "U+00EE", "U+00EF", "U+00CD", "U+00CC", "U+00CE", "U+00CF"},
        repl  |-> <<"i">>],
       [class |-> {"U+00F2", "U+00F3", "U+00F4", "U+00F5", "U+00F6", "U+00D3", "U+00D2", "U+00D4", "U+00D6", "U+00D5"},
        repl  |-> <<"o">>],
       [class |-> {"U+00F9", "U+00FA", "U+00FB", "U+00FC", "U+00DA", "U+00D9", "U+00DB", "U+00DC"},
        repl  |-> <<"u">>],
       [class |-> {"U+0153", "U+0152"},
        repl  |-> <<"o", "e">>] >>

\* re.sub(pattern, replacement, s) for a pattern that is one character class
RECURSIVE Sub(_, _, _)
Sub(class, repl, s) ==
    IF s = << >> THEN << >>
    ELSE (IF Head(s) \in class THEN repl ELSE <<Head(s)>>) \o Sub(class, repl, Tail(s))

\* the loop of remove_accents from substitution i on
RECURSIVE RemoveAccentsFrom(_, _)
RemoveAccentsFrom(s, i) ==
    IF i > Len(AccentTable) THEN s
    ELSE RemoveAccentsFrom(Sub(AccentTable[i].class, AccentTable[i].repl, s), i + 1)

\* a faulty remove_accents: each substitution replaces the first occurrence only
RECURSIVE SubFirst(_, _, _)
SubFirst(class, repl, s) ==
    IF s = << >> THEN << >>
    ELSE IF Head(s) \in class THEN repl \o Tail(s)
         ELSE <<Head(s)>> \o SubFirst(class, repl, Tail(s))

RECURSIVE RemoveFirstAccentsFrom(_, _)
RemoveFirstAccentsFrom(s, i) ==
    IF i > Len(AccentTable) THEN s
    ELSE RemoveFirstAccentsFrom(SubFirst(AccentTable[i].class, AccentTable[i].repl, s), i + 1)

RemoveFirstAccents(raw) == RemoveFirstAccentsFrom(raw, 1)

\* remove_accents
remove_accents(raw) == RemoveAccentsFrom(raw, 1)

PREFIXES ==
    << <<"L", "e", "s", " ", "A", "v", "e", "n", "t", "u", "r", "e", "s", " ", "D", "e">>,
       <<"L", "e", "s", " ", "A", "v", "e", "n", "t", "u", "r", "e", "s", " ", "D", "'">>,
       <<"L", "e", "s", " ", "N", "o", "u", "v", "e", "l", "l", "e", "s", " ", "A", "v", "e", "n", "t", "u", "r", "e", "s", " ", "D", "e">>,
       <<"L", "e", "s", " ", "N", "o", "u", "v", "e", "l", "l", "e", "s", " ", "A", "v", "e", "n", "t", "u", "r", "e", "s", " ", "D", "'">>,
       <<"U", "n", "e", " ", "A", "v", "e", "n", "t", "u", "r", "e", " ", "D", "e">>,
       <<"U", "n", "e", " ", "A", "v", "e", "n", "t", "u", "r", "e", " ", "D", "'">> >>

DETERMINERS ==
    << <<"L", "e">>,
       <<"L", "a">>,
       <<"L", "e", "s">>,
       <<"L", "'">>,
       <<"U", "n">>,
       <<"U", "n", "e">>,
       <<"D", "e", "s">>,
       <<"D", "u">>,
       <<"D", "e">>,
       <<"D", "'">>,
       <<"T", "h", "e">>,
       <<"A">>,
       <<"A", "n">> >>

\* re.compile(f"^({'|'.join(alts)})\s", re.IGNORECASE).match(s): the
\* alternatives that match at the start of s with whitespace after them
MatchingAlternatives(alts, s) ==
    {i \in 1..Len(alts) :
        /\ Len(alts[i]) < Len(s)
        /\ Lower(Slice(s, 1, Len(alts[i]))) = Lower(alts[i])
        /\ s[Len(alts[i]) + 1] \in Whitespace}

\* group(1) of that match, None when there is none: the text matched by the
\* first alternative, in the order of the list, that lets the pattern match
LeadingMatch(alts, s) ==
    IF MatchingAlternatives(alts, s) = {} THEN None
    ELSE Slice(s, 1, Len(alts[CHOOSE i \in MatchingAlternatives(alts, s) :
                                 \A j \in MatchingAlternatives(alts, s) : i <= j]))

\* str.removeprefix
RemovePrefix(s, pre) ==
    IF HasAt(s, 1, pre) THEN Slice(s, Len(pre) + 1, Len(s)) ELSE s

\* revert_determiner
revert_determiner(raw) ==
    LET prefix == IF LeadingMatch(PREFIXES, raw) # None
                  THEN LeadingMatch(PREFIXES, raw)
                  ELSE LeadingMatch(DETERMINERS, raw)
    IN  IF prefix # None
        THEN Strip(RemovePrefix(raw, prefix)) \o <<" ", "(">>
                 \o RemoveSuffix(prefix, <<" ">>) \o <<")">>
        ELSE raw

\* sanitize_series_name
sanitize_series_name(name) == remove_accents(SplitFirst(revert_determiner(name), <<" ">>))

\* str.upper() on the letters of ASCII
Upper(s) ==
    [i \in 1..Len(s) |->
        IF s[i] \in LowerLetters THEN CHOOSE c \in UpperLetters : LowerOf[c] = s[i] ELSE s[i]]

RECURSIVE Spaces(_)
Spaces(n) == IF n = 0 THEN << >> ELSE <<" ">> \o Spaces(n - 1)

\* the titles sanitize_series_name is given: a prefix phrase, a determiner or
\* nothing, in any letter case, some spaces or none, and a name
LeadingPhrases == Range(PREFIXES) \cup Range(DETERMINERS) \cup { << >> }

TitleNames ==
    { << >>,
      <<"R", "a", "h", "a", "n">>,
      <<"A", "s", "t", "U+00E9", "r", "i", "x">>,
      <<"U+0152", "i", "l", " ", "N", "o", "i", "r">> }

SanitizeTitles ==
    {cased \o Spaces(gap) \o name :
        cased \in UNION {{ph, Lower(ph), Upper(ph)} : ph \in LeadingPhrases},
        gap \in 0..MaxGap,
        name \in TitleNames}

\* short texts over accented characters of every substitution, one that no
\* substitution covers (U+00F1), a letter and the space
AccentChars ==
    {"U+00E0", "U+00C9", "U+00E7", "U+00CF", "U+00F5", "U+00DC", "U+0153", "U+0152",
     "U+00F1", "e", " "}

SanitizeInputs == SanitizeTitles \cup SeqsUpTo(AccentChars, MaxAccentLen)

InitSanitize ==
    /\ pc = "sanitize"
    /\ exc = ""
    /\ caller = "api"
    /\ pfile = NewFile(<< >>, NoAncestors)
    /\ MainIdle
    /\ ScrapeIdle
    /\ LinkIdle
    /\ raw_text \in SanitizeInputs
    /\ reverted = << >>
    /\ search_key = << >>
    /\ PageIdle
    /\ JsonIdle

\* series_name = revert_determiner(series_name)
RevertDeterminer ==
    /\ pc = "sanitize"
    /\ reverted' = revert_determiner(raw_text)
    /\ pc' = "first_word"
    /\ UNCHANGED <<exc, caller, pfile, mainVars, scrapeVars, linkVars, pageVars, jsonVars, raw_text, search_key>>

\* the first word of the title, and remove_accents on it
RemoveAccents ==
    /\ pc = "first_word"
    /\ search_key' = remove_accents(SplitFirst(reverted, <<" ">>))
    /\ pc' = "sanitized"
    /\ UNCHANGED <<exc, caller, pfile, mainVars, scrapeVars, linkVars, pageVars, jsonVars, raw_text, reverted>>

NextSanitize == RevertDeterminer \/ RemoveAccents

SpecSanitize == InitSanitize /\ [][NextSanitize]_vars

(***************************************************************************)
(* scraper.py: get_album_info on one detail page                            *)
(***************************************************************************)
\* the labels of the blocks get_album_info reads
Key ==
    [titre      |-> <<"T", "i", "t", "r", "e", " ", ":">>,
     tome       |-> <<"T", "o", "m", "e", " ", ":">>,
     scenario   |-> <<"S", "c", "U+00E9", "n", "a", "r", "i", "o", " ", ":">>,
     dessin     |-> <<"D", "e", "s", "s", "i", "n", " ", ":">>,
     couleurs   |-> <<"C", "o", "u", "l", "e", "u", "r", "s", " ", ":">>,
     editeur    |-> <<"E", "d", "i", "t", "e", "u", "r", " ", ":">>,
     format     |-> <<"F", "o", "r", "m", "a", "t", " ", ":">>,
     depot      |-> <<"D", "U+00E9", "p", "o", "t", " ", "l", "U+00E9", "g", "a", "l", " ", ":">>,
     isbn       |-> <<"E", "A", "N", "/", "I", "S", "B", "N", " ", ":">>,
     collection |-> <<"C", "o", "l", "l", "e", "c", "t", "i", "o", "n", " ", ":">>]

\* a li block of the page: the text of its label (None without a label), the
\* text after the label, the href of its anchor ("" without an anchor) and
\* the text of its span (None without a span), which comes last
Li(label, body, href, span) == [label |-> label, body |-> body, href |-> href, span |-> span]

\* block.text: the texts of the block in document order
Text(li) ==
    (IF li.label = None THEN << >> ELSE li.label)
        \o li.body
        \o (IF li.span = None THEN << >> ELSE li.span)

\* the names get_author_info_from_block gives no author for
Sentinels ==
    { <<"<", "N", "&", "B", ">">>,
      <<"<", "Q", "u", "a", "d", "r", "i", "c", "h", "r", "o", "m", "i", "e", ">">> }

RECURSIVE Split(_, _)
\* str.split(sep)
Split(s, sep) ==
    LET at == Find(s, sep)
    IN  IF at = 0 THEN <<s>>
        ELSE <<Slice(s, 1, at - 1)>> \o Split(Slice(s, at + Len(sep), Len(s)), sep)

RECURSIVE Join(_, _)
\* sep.join(parts)
Join(parts, sep) ==
    IF parts = << >> THEN << >>
    ELSE IF Len(parts) = 1 THEN parts[1]
    ELSE parts[1] \o sep \o Join(Tail(parts), sep)

\* Author(found_name=..., url=...) with __post_init__; found is the author,
\* in a sequence of one, and is empty when the unpacking of the split raises
Author(found_name, url) ==
    IF Find(found_name, <<",", " ">>) # 0
    THEN LET parts == Split(found_name, <<",", " ">>)
         IN  IF Len(parts) # 2
             THEN [raised |-> "ValueError", found |-> << >>]
             ELSE [raised |-> "",
                   found |-> <<[name |-> parts[2] \o <<" ">> \o parts[1],
                                first_name |-> parts[2],
                                last_name |-> parts[1],
                                url |-> url]>>]
    ELSE [raised |-> "",
          found |-> <<[name |-> found_name, first_name |-> << >>,
                       last_name |-> << >>, url |-> url]>>]

\* a faulty get_author_info_from_block without the test of the sentinels
AuthorOfAnyName(li, role) ==
    IF li.href = ""
    THEN [raised |-> "TypeError", found |-> << >>]
    ELSE Author(Strip(RemovePrefix(Strip(Text(li)), role)), li.href)

\* get_author_info_from_block: block.find("a")["href"] raises without an
\* anchor, before the name is looked at
get_author_info_from_block(li, role) ==
    LET found_name == Strip(RemovePrefix(Strip(Text(li)), role))
    IN  IF li.href = ""
        THEN [raised |-> "TypeError", found |-> << >>]
        ELSE IF found_name \in Sentinels
        THEN [raised |-> "", found |-> << >>]
        ELSE Author(found_name, li.href)

RECURSIVE FirstBlock(_, _, _)
\* next((x for x in content.find_all("li") if x.find("label").text == role), None):
\* the index of the block, 0 for None, -1 when a block without label is met
\* before it (None has no attribute text)
FirstBlock(content, role, i) ==
    IF i > Len(content) THEN 0
    ELSE IF content[i].label = None THEN -1
    ELSE IF content[i].label = role THEN i
    ELSE FirstBlock(content, role, i + 1)

RECURSIVE AuthorsFrom(_, _, _)
\* the author of the block at i, then the while loop over the next siblings
\* with a blank label
AuthorsFrom(content, role, i) ==
    LET got  == get_author_info_from_block(content[i], role)
        more == /\ i < Len(content)
                /\ content[i + 1].label # None
                /\ Strip(content[i + 1].label) = << >>
    IN  IF got.raised # "" THEN [raised |-> got.raised, authors |-> << >>]
        ELSE IF more
        THEN LET rest == AuthorsFrom(content, role, i + 1)
             IN  IF rest.raised # "" THEN rest
                 ELSE [raised |-> "", authors |-> got.found \o rest.authors]
        ELSE [raised |-> "", authors |-> got.found]

\* get_authors
get_authors(content, role) ==
    LET first == FirstBlock(content, role, 1)
    IN  IF first = -1 THEN [raised |-> "AttributeError", authors |-> << >>]
        ELSE IF first = 0 THEN [raised |-> "", authors |-> << >>]
        ELSE AuthorsFrom(content, role, first)

\* RELEASE_DATE_PATTERN.match
ReleaseDateMatch(s) ==
    LET pre == <<"(", "P", "a", "r", "u", "t", "i", "o", "n", " ", "l", "e", " ">>
        d1  == Len(pre) + 1
        de  == DigitRunEnd(s, d1)
        m1  == de + 2
        me  == DigitRunEnd(s, m1)
        y1  == me + 2
        ye  == DigitRunEnd(s, y1)
    IN  IF /\ HasAt(s, 1, pre)
           /\ de >= d1 /\ HasAt(s, de + 1, <<"/">>)
           /\ me >= m1 /\ HasAt(s, me + 1, <<"/">>)
           /\ ye >= y1 /\ HasAt(s, ye + 1, <<")">>)
        THEN [ok |-> TRUE, day |-> Slice(s, d1, de), month |-> Slice(s, m1, me),
              year |-> Slice(s, y1, ye)]
        ELSE [ok |-> FALSE]

\* DEPOT_LEGAL_BLOCK_PATTERN.match
DepotLegalMatch(s) ==
    LET pre == Key.depot \o <<" ">>
        m1  == Len(pre) + 1
        y1  == m1 + 3
    IN  IF /\ HasAt(s, 1, pre)
           /\ y1 + 3 <= Len(s)
           /\ \A i \in {m1, m1 + 1} \cup y1..(y1 + 3) : s[i] \in Digits
           /\ s[m1 + 2] = "/"
        THEN [ok |-> TRUE, month |-> Slice(s, m1, m1 + 1), year |-> Slice(s, y1, y1 + 3)]
        ELSE [ok |-> FALSE]

\* a faulty get_release_date that tries the legal deposit first
DepotLegalFirst(album, li) ==
    LET rel == IF li.span # None THEN ReleaseDateMatch(Strip(li.span)) ELSE [ok |-> FALSE]
        dep == DepotLegalMatch(Strip(Text(li)))
    IN  IF dep.ok
        THEN [album EXCEPT !.month = IntOf(dep.month), !.year = IntOf(dep.year)]
        ELSE IF rel.ok
        THEN [album EXCEPT !.day = IntOf(rel.day), !.month = IntOf(rel.month),
                           !.year = IntOf(rel.year)]
        ELSE album

\* Album.get_release_date
get_release_date(album, li) ==
    LET rel == IF li.span # None THEN ReleaseDateMatch(Strip(li.span)) ELSE [ok |-> FALSE]
        dep == DepotLegalMatch(Strip(Text(li)))
    IN  IF rel.ok
        THEN [album EXCEPT !.day = IntOf(rel.day), !.month = IntOf(rel.month),
                           !.year = IntOf(rel.year)]
        ELSE IF dep.ok
        THEN [album EXCEPT !.month = IntOf(dep.month), !.year = IntOf(dep.year)]
        ELSE album

\* [x.name for x in authors]
Names(authors) == [i \in 1..Len(authors) |-> authors[i].name]

\* the match statement of get_album_info on one block with a label
MatchBlock(album, content, li) ==
    LET key    == Strip(li.label)
        value  == Strip(RemovePrefix(Text(li), key))
        got    == get_authors(content, key)
        joined == Join(Names(got.authors), <<",", " ">>)
        ok(a)  == [raised |-> "", album |-> a]
    IN  CASE key = Key.titre      -> ok([album EXCEPT !.title = value])
          [] key = Key.tome       -> ok([album EXCEPT !.number = value])
          [] key = Key.scenario   ->
                IF got.raised # "" THEN [raised |-> got.raised, album |-> album]
                ELSE ok([album EXCEPT !.writers = got.authors, !.writer = joined])
          [] key = Key.dessin     ->
                IF got.raised # "" THEN [raised |-> got.raised, album |-> album]
                ELSE ok([album EXCEPT !.pencillers = got.authors, !.penciller = joined])
          [] key = Key.couleurs   ->
                IF got.raised # "" THEN [raised |-> got.raised, album |-> album]
                ELSE ok([album EXCEPT !.colorists = got.authors, !.colorist = joined])
          [] key = Key.editeur    -> ok([album EXCEPT !.publisher = value])
          [] key = Key.format     -> ok([album EXCEPT !.format = value])
          [] key = Key.depot      -> ok(get_release_date(album, li))
          [] key = Key.isbn       -> ok([album EXCEPT !.isbn = value])
          [] key = Key.collection -> ok([album EXCEPT !.collection = value])
          [] OTHER                -> ok(album)

\* the most blocks of a detail page
MaxBlocks == 3

FormatManga == <<"F", "o", "r", "m", "a", "t", " ", "M", "a", "n", "g", "a">>

\* the record get_albums hands to get_album_info: an Album with its defaults
\* (collection is no field of the class and is set on the way)
StubAlbum ==
    [title |-> << >>, number |-> <<"4">>,
     writers |-> << >>, pencillers |-> << >>, colorists |-> << >>,
     writer |-> << >>, penciller |-> << >>, colorist |-> << >>,
     publisher |-> << >>, format |-> << >>, isbn |-> << >>, collection |-> << >>,
     community_rating |-> <<"0", ".", "0">>, summary |-> << >>,
     manga |-> "Unknown", year |-> -1, month |-> -1, day |-> -1]

\* the blocks of the pages of the model: role blocks with a name, with a
\* "last, first" name and with a sentinel, continuation blocks with a blank
\* or an empty label, a block without label, a block without anchor, a role
\* label with a space after it, the legal deposit with and without the
\* release date, and blocks of plain fields
LiChoices ==
    { Li(Key.scenario, <<"A", ",", " ", "B">>, "/a", None),
      Li(Key.scenario \o <<" ">>, <<"F">>, "/f", None),
      Li(Key.couleurs, <<"<", "N", "&", "B", ">">>, "/n", None),
      Li(Key.dessin, <<"D">>, "/d", None),
      Li(<<" ">>, <<"C">>, "/c", None),
      Li(<< >>, <<" ", "<", "N", "&", "B", ">">>, "/n", None),
      Li(<< >>, <<"E">>, "", None),
      Li(None, <<"x">>, "", None),
      Li(Key.depot \o <<" ">>, <<"0", "3", "/", "2", "0", "1", "9", " ">>, "",
         <<"(", "P", "a", "r", "u", "t", "i", "o", "n", " ", "l", "e", " ",
           "1", "5", "/", "0", "4", "/", "2", "0", "2", "0", ")">>),
      Li(Key.depot \o <<" ">>, <<"0", "3", "/", "2", "0", "1", "9">>, "", None),
      Li(Key.depot \o <<" ">>, <<"0", "3", "/", "2", "0", "1", "9", " ">>, "",
         <<"(", "2", "0", "2", "0", ")">>),
      Li(Key.depot \o <<" ">>, <<"2", "0", "1", "9">>, "", None),
      Li(Key.tome \o <<" ">>, <<"5">>, "", None),
      Li(Key.format \o <<" ">>, FormatManga, "", None) }

\* what the page has outside the list: the rating and the description
RatingTexts == {None, <<"4", ".", "2">>}

DescriptionTexts == {None, <<" ", "x">>}

InitAlbumInfo ==
    /\ pc = "get_album_info_page"
    /\ exc = ""
    /\ caller = "api"
    /\ pfile = NewFile(<< >>, NoAncestors)
    /\ MainIdle
    /\ ScrapeIdle
    /\ LinkIdle
    /\ raw_text = << >>
    /\ reverted = << >>
    /\ search_key = << >>
    /\ soup \in {[div |-> FALSE, content |-> << >>]}
                    \cup {[div |-> TRUE, content |-> c] : c \in SeqsUpTo(LiChoices, MaxBlocks)}
    /\ info = 1
    /\ detail = StubAlbum
    /\ JsonIdle

\* soup.find("div", class_="tab_content_liste_albums"): None is returned
\* without it
FindContent ==
    /\ pc = "get_album_info_page"
    /\ pc' = IF soup.div THEN "for_info" ELSE "no_info"
    /\ UNCHANGED <<exc, caller, pfile, mainVars, scrapeVars, linkVars, sanitizeVars, jsonVars, pageVars>>

\* one turn of the loop over the blocks
ForInfo ==
    /\ pc = "for_info"
    /\ info <= Len(soup.content)
    /\ LET li == soup.content[info]
       IN  IF li.label = None
           THEN /\ info' = info + 1
                /\ UNCHANGED <<pc, exc, detail>>
           ELSE LET done == MatchBlock(detail, soup.content, li)
                IN  IF done.raised # ""
                    THEN /\ exc' = done.raised
                         /\ pc' = "raised"
                         /\ UNCHANGED <<info, detail>>
                    ELSE /\ detail' = done.album
                         /\ info' = info + 1
                         /\ UNCHANGED <<pc, exc>>
    /\ UNCHANGED <<caller, pfile, mainVars, scrapeVars, linkVars, sanitizeVars, jsonVars, soup>>

\* after the loop: the rating, the summary, the manga flag, and the return
AfterInfos ==
    /\ pc = "for_info"
    /\ info > Len(soup.content)
    /\ \E rating \in RatingTexts, description \in DescriptionTexts :
          LET rated   == IF rating # None
                         THEN [detail EXCEPT !.community_rating = Strip(rating)]
                         ELSE detail
              summed  == IF description # None
                         THEN [rated EXCEPT !.summary = Strip(description)]
                         ELSE rated
          IN  detail' = IF summed.format = FormatManga
                        THEN [summed EXCEPT !.manga = "Yes"]
                        ELSE summed
    /\ pc' = "info_found"
    /\ UNCHANGED <<exc, caller, pfile, mainVars, scrapeVars, linkVars, sanitizeVars, jsonVars, soup, info>>

NextAlbumInfo == FindContent \/ ForInfo \/ AfterInfos

SpecAlbumInfo == InitAlbumInfo /\ [][NextAlbumInfo]_vars

(***************************************************************************)
(* main.py: extract_json and get_metadata_from_ai                           *)
(***************************************************************************)
\* str.rfind: the last position at which p occurs in s, 0 when it does not
RFind(s, p) ==
    LET hits == {i \in 1..(Len(s) - Len(p) + 1) : HasAt(s, i, p)}
    IN  IF hits = {} THEN 0 ELSE CHOOSE i \in hits : \A j \in hits : i >= j

\* a JSON value: its type (null, num, str, list, dict), the text of a number
\* or a string, the items of a list or the values of a dict, the keys of a
\* dict
JV(t, text, items, keys) == [t |-> t, text |-> text, items |-> items, keys |-> keys]

JNull == JV("null", << >>, << >>, << >>)

\* what the decoder gives at a position: no value, or a value and the
\* position after it
JFail == [ok |-> FALSE, next |-> 0, val |-> JNull]

JOk(next, val) == [ok |-> TRUE, next |-> next, val |-> val]

\* the position after the whitespace at i
SkipWs(s, i) == SpaceRunEnd(s, i) + 1

\* a string without escapes, s[i] is its opening quote
ParseString(s, i) ==
    LET close == Find(Slice(s, i + 1, Len(s)), <<"\"">>)
    IN  IF close = 0 THEN JFail
        ELSE JOk(i + close + 1, JV("str", Slice(s, i + 1, i + close - 1), << >>, << >>))

RECURSIVE ParseValue(_, _), ParseItems(_, _, _), ParseMembers(_, _, _, _)
\* a value at i: a list, a dict, a string, an integer without leading zero,
\* or null
ParseValue(s, i) ==
    IF i > Len(s) THEN JFail
    ELSE CASE s[i] = "[" ->
                 LET j == SkipWs(s, i + 1)
                 IN  IF j <= Len(s) /\ s[j] = "]"
                     THEN JOk(j + 1, JV("list", << >>, << >>, << >>))
                     ELSE ParseItems(s, j, << >>)
           [] s[i] = "{" ->
                 LET j == SkipWs(s, i + 1)
                 IN  IF j <= Len(s) /\ s[j] = "}"
                     THEN JOk(j + 1, JV("dict", << >>, << >>, << >>))
                     ELSE ParseMembers(s, j, << >>, << >>)
           [] s[i] = "\"" -> ParseString(s, i)
           [] s[i] \in Digits ->
                 LET e == IF s[i] = "0" THEN i ELSE DigitRunEnd(s, i)
                 IN  JOk(e + 1, JV("num", Slice(s, i, e), << >>, << >>))
           [] HasAt(s, i, <<"n", "u", "l", "l">>) -> JOk(i + 4, JNull)
           [] OTHER -> JFail

\* the items of a list from i on, after those of acc
ParseItems(s, i, acc) ==
    LET v == ParseValue(s, i)
        j == SkipWs(s, v.next)
    IN  IF ~v.ok \/ j > Len(s) THEN JFail
        ELSE IF s[j] = "," THEN ParseItems(s, SkipWs(s, j + 1), Append(acc, v.val))
        ELSE IF s[j] = "]" THEN JOk(j + 1, JV("list", << >>, Append(acc, v.val), << >>))
        ELSE JFail

\* the members of a dict from i on, after those of keys and vals
ParseMembers(s, i, keys, vals) ==
    IF i > Len(s) \/ s[i] # "\"" THEN JFail
    ELSE LET key == ParseString(s, i)
             c   == SkipWs(s, key.next)
             v   == ParseValue(s, SkipWs(s, c + 1))
             j   == SkipWs(s, v.next)
         IN  IF ~key.ok \/ c > Len(s) \/ s[c] # ":" THEN JFail
             ELSE IF ~v.ok \/ j > Len(s) THEN JFail
             ELSE IF s[j] = ","
             THEN ParseMembers(s, SkipWs(s, j + 1), Append(keys, key.val.text),
                               Append(vals, v.val))
             ELSE IF s[j] = "}"
             THEN JOk(j + 1, JV("dict", << >>, Append(vals, v.val),
                                Append(keys, key.val.text)))
             ELSE JFail

\* json.loads: the value of the whole text, ok is FALSE for JSONDecodeError
json_loads(s) ==
    LET r == ParseValue(s, SkipWs(s, 1))
    IN  IF r.ok /\ SkipWs(s, r.next) > Len(s)
        THEN [ok |-> TRUE, val |-> r.val]
        ELSE [ok |-> FALSE, val |-> JNull]

\* the keys ensure_metadata asks for
MetadataKeys ==
    << <<"p", "a", "t", "h">>, <<"s", "e", "r", "i", "e", "s">>,
       <<"n", "u", "m", "b", "e", "r">> >>

\* key in metadata, for a dict, a list and a string
Has(metadata, key) ==
    CASE metadata.t = "dict" -> \E i \in 1..Len(metadata.keys) : metadata.keys[i] = key
      [] metadata.t = "list" ->
            \E i \in 1..Len(metadata.items) :
                metadata.items[i].t = "str" /\ metadata.items[i].text = key
      [] OTHER -> Find(metadata.text, key) # 0

\* ensure_metadata: "in" raises TypeError on a number and on None
ensure_metadata(metadata) ==
    IF metadata.t \in {"num", "null"}
    THEN [raised |-> "TypeError", ok |-> FALSE]
    ELSE [raised |-> "",
          ok |-> \A i \in 1..Len(MetadataKeys) : Has(metadata, MetadataKeys[i])]

\* metadata[key] of a dict: the value of the last member with this key
Get(metadata, key) ==
    LET at == {i \in 1..Len(metadata.keys) : metadata.keys[i] = key}
    IN  metadata.items[CHOOSE i \in at : \A j \in at : i >= j]

\* remove_zeroes of a number or of a string
remove_zeroes(number) ==
    IF number.t = "num" THEN number.text
    ELSE IF number.text # << >> /\ \A i \in 1..Len(number.text) : number.text[i] = "0"
    THEN <<"0">>
    ELSE LStripZeros(number.text)

\* str(x.file_path.relative_to(BD_FOLDER).as_posix()) of a file of the
\* folder itself
PathOf(file) == file.file_name \o <<".", "c", "b", "z">>

RECURSIVE ApplyMetadata(_, _)
\* the loop of get_metadata_from_ai over the metadata: the files after it,
\* or the exception that ends it; a series of null gives a title as empty
\* as "", a series that is a number gives its numeral
ApplyMetadata(fs, metadata) ==
    IF metadata = << >> THEN [raised |-> "", files |-> fs]
    ELSE LET file_data == Head(metadata)
             named  == {i \in 1..Len(fs) : PathOf(fs[i]) = Get(file_data, MetadataKeys[1]).text}
             numeral == Get(file_data, MetadataKeys[3])
             title == Get(file_data, MetadataKeys[2])
             update(f) ==
                 [f EXCEPT !.ai_suggested_title = title.text,
                           !.number = IF numeral.t = "null" THEN << >>
                                      ELSE remove_zeroes(numeral)]
         IN  IF \/ (file_data.t = "str" /\ file_data.text = << >>)
                \/ (file_data.t = "list" /\ file_data.items = << >>)
                \/ (file_data.t = "dict" /\ file_data.keys = << >>)
             THEN ApplyMetadata(fs, Tail(metadata))
             ELSE IF file_data.t # "dict"
             THEN [raised |-> "TypeError", files |-> fs]
             ELSE IF Get(file_data, MetadataKeys[1]).t \in {"list", "dict"}
             THEN [raised |-> "TypeError", files |-> fs]
             ELSE IF Get(file_data, MetadataKeys[1]).t # "str" \/ named = {}
             THEN ApplyMetadata(fs, Tail(metadata))
             ELSE IF numeral.t \in {"list", "dict"}
             THEN [raised |-> "TypeError",
                   files |-> [i \in 1..Len(fs) |->
                                IF i \in named
                                THEN [fs[i] EXCEPT !.ai_suggested_title = title.text]
                                ELSE fs[i]]]
             ELSE ApplyMetadata([i \in 1..Len(fs) |->
                                    IF i \in named THEN update(fs[i]) ELSE fs[i]],
                                Tail(metadata))

\* the frames the interpreter allows extract_json before RecursionError
MaxFrames == 3

\* the most pieces of a response made of brackets, braces and fillers
MaxParts == 3

\* a list of one complete object
R_List ==
    <<"[", "{", "\"", "p", "a", "t", "h", "\"", ":", "\"", "1", "2", ".", "c", "b",
        "z", "\"", ",", "\"", "s", "e", "r", "i", "e", "s", "\"", ":", "\"", "B",
        "l", "a", "k", "e", "\"", ",", "\"", "n", "u", "m", "b", "e", "r", "\"",
        ":", "\"", "0", "4", "\"", "}", "]">>

\* one object in prose, no list
R_Object ==
    <<"H", "e", "r", "e", ":", " ", "{", "\"", "p", "a", "t", "h", "\"", ":", " ",
        "\"", "1", "2", ".", "c", "b", "z", "\"", ",", " ", "\"", "s", "e", "r",
        "i", "e", "s", "\"", ":", " ", "\"", "B", "l", "a", "k", "e", "\"", ",",
        " ", "\"", "n", "u", "m", "b", "e", "r", "\"", ":", " ", "n", "u", "l",
        "l", "}", " ", "o", "k">>

\* an object without the key number
R_NoNumber ==
    <<"[", "{", "\"", "p", "a", "t", "h", "\"", ":", "\"", "1", "2", ".", "c", "b",
        "z", "\"", ",", "\"", "s", "e", "r", "i", "e", "s", "\"", ":", "\"", "B",
        "l", "a", "k", "e", "\"", "}", "]">>

\* an object for a path that is not in the batch
R_OtherPath ==
    <<"[", "{", "\"", "p", "a", "t", "h", "\"", ":", "\"", "z", "z", "\"", ",", "\"",
        "s", "e", "r", "i", "e", "s", "\"", ":", "\"", "B", "l", "a", "k", "e",
        "\"", ",", "\"", "n", "u", "m", "b", "e", "r", "\"", ":", "7", "}", "]">>

\* a refusal: no bracket, no brace
R_Prose ==
    <<"S", "o", "r", "r", "y", ",", " ", "n", "o", ".">>

\* a list cut before its end, with brackets in a title
R_Cut ==
    <<"[", "{", "\"", "p", "a", "t", "h", "\"", ":", "\"", "1", "2", ".", "c", "b",
        "z", "\"", ",", "\"", "s", "e", "r", "i", "e", "s", "\"", ":", "\"", "B",
        "[", "1", "]", "\"", ",", "\"", "n", "u", "m", "b", "e", "r", "\"", ":",
        "\"", "0", "\"", "}">>

\* an object with no series and a number that is no numeral
R_NullSeries ==
    <<"{", "\"", "p", "a", "t", "h", "\"", ":", "\"", "1", "2", ".", "c", "b", "z",
        "\"", ",", "\"", "s", "e", "r", "i", "e", "s", "\"", ":", "n", "u", "l",
        "l", ",", "\"", "n", "u", "m", "b", "e", "r", "\"", ":", "\"", "H", "S",
        "\"", "}">>

\* a list of one string that has the three keys in it
R_Words ==
    <<"[", "\"", "p", "a", "t", "h", " ", "s", "e", "r", "i", "e", "s", " ", "n", "u",
        "m", "b", "e", "r", "\"", "]">>

\* the responses of the model: whole answers, and all short texts of
\* brackets, braces, a digit, a letter and the space
Responses ==
    {R_List, R_Object, R_NoNumber, R_OtherPath, R_Prose, R_Cut, R_NullSeries, R_Words}
        \cup SeqsUpTo({"[", "]", "{", "}", "1", "x", " "}, MaxParts)

\* the batches map_by_titles hands to get_metadata_from_ai
AiBatches ==
    { <<BDFile(File_12.file_name, File_12.parents)>>,
      <<BDFile(File_Blacksad.file_name, File_Blacksad.parents),
        BDFile(File_12.file_name, File_12.parents)>> }

\* get_metadata_from_ai with the response at hand, at the call of
\* extract_json
InitExtractJson ==
    /\ pc = "extract_json"
    /\ exc = ""
    /\ caller = "api"
    /\ pfile = NewFile(<< >>, NoAncestors)
    /\ overwrite = FALSE
    /\ paths = << >>
    /\ files \in AiBatches
    /\ mapped = << >>
    /\ bucket = 1
    /\ zips = << >>
    /\ ScrapeIdle
    /\ LinkIdle
    /\ raw_text = << >>
    /\ reverted = << >>
    /\ search_key = << >>
    /\ PageIdle
    /\ response_content \in Responses
    /\ start_marker = "["
    /\ end_marker = "]"
    /\ to_return = << >>
    /\ frames = 0

\* one call of extract_json: with both markers found it decodes what lies
\* between them and returns through all its callers; without one of them it
\* calls itself with the braces, whatever its own markers are
ExtractJson ==
    /\ pc = "extract_json"
    /\ LET start_idx == Find(response_content, <<start_marker>>)
           end_idx   == RFind(response_content, <<end_marker>>)
           json_str  == Slice(response_content, start_idx, end_idx)
           loaded    == json_loads(json_str)
           json_data == IF loaded.val.t = "list" THEN loaded.val.items ELSE <<loaded.val>>
       IN  IF start_idx # 0 /\ end_idx # 0
           THEN IF ~loaded.ok
                THEN /\ to_return' = << >>
                     /\ pc' = "for_file_data"
                     /\ UNCHANGED <<exc, start_marker, end_marker, frames>>
                ELSE IF \E i \in 1..Len(json_data) : ensure_metadata(json_data[i]).raised # ""
                THEN /\ exc' = "TypeError"
                     /\ pc' = "raised"
                     /\ UNCHANGED <<to_return, start_marker, end_marker, frames>>
                ELSE /\ to_return' = SelectSeq(json_data, LAMBDA m : ensure_metadata(m).ok)
                     /\ pc' = "for_file_data"
                     /\ UNCHANGED <<exc, start_marker, end_marker, frames>>
           ELSE IF frames < MaxFrames
                THEN /\ frames' = frames + 1
                     /\ start_marker' = "{"
                     /\ end_marker' = "}"
                     /\ UNCHANGED <<pc, exc, to_return>>
                ELSE /\ exc' = "RecursionError"
                     /\ pc' = "raised"
                     /\ UNCHANGED <<to_return, start_marker, end_marker, frames>>
    /\ UNCHANGED <<caller, pfile, mainVars, scrapeVars, linkVars, sanitizeVars, pageVars,
                   response_content>>

\* if metadata := extract_json(response): the loop over the metadata, and
\* the return of the files
ForFileData ==
    /\ pc = "for_file_data"
    /\ LET done == ApplyMetadata(files, to_return)
       IN  /\ files' = done.files
           /\ exc' = done.raised
           /\ pc' = IF done.raised # "" THEN "raised" ELSE "metadata_applied"
    /\ UNCHANGED <<caller, pfile, overwrite, paths, mapped, bucket, zips, scrapeVars,
                   linkVars, sanitizeVars, pageVars, jsonVars>>

NextExtractJson == ExtractJson \/ ForFileData

SpecExtractJson == InitExtractJson /\ [][NextExtractJson]_vars

(***************************************************************************)
(* Properties                                                               *)
(***************************************************************************)
\* the least element of a non-empty set of integers
Least(S) == CHOOSE i \in S : \A j \in S : i <= j

\* the positions of a stem where " T" stands before a digit
TPositions(s) ==
    {i \in 1..Len(s) : HasAt(s, i, <<" ", "T">>) /\ i + 2 <= Len(s) /\ s[i + 2] \in Digits}

\* the whole run of digits after the " T" at i
TDigits(s, i) == Slice(s, i + 2, DigitRunEnd(s, i + 2))

\* number is the decimal numeral of the value of the digits n, without
\* leading zeros: n is number after a run of zeros
IsCanonicalOf(number, n) ==
    /\ IsDigitStr(number)
    /\ Len(number) = 1 \/ number[1] # "0"
    /\ Len(number) <= Len(n)
    /\ \A i \in 1..(Len(n) - Len(number)) : n[i] = "0"
    /\ \A i \in 1..Len(number) : n[Len(n) - Len(number) + i] = number[i]

StartsWithYearPrefix(n) == HasAt(n, 1, <<"1", "9">>) \/ HasAt(n, 1, <<"2", "0">>)

\* C10, as amended: when the leftmost " T<digits>" of a stem has a run of
\* one to three digits n, get_number records the numeral of n without
\* leading zeros ("0" when n is all zeros).
C10_LeftmostTNumber ==
    (pc \in {"get_title", "constructed"} /\ TPositions(pfile.file_name) # {}) =>
        LET n == TDigits(pfile.file_name, Least(TPositions(pfile.file_name)))
        IN  Len(n) <= 3 => IsCanonicalOf(pfile.number, n)

\* C10: the stem " T04" has been parsed and its number is "4"
C10_Witness ==
    /\ pc = "constructed"
    /\ pfile.file_name = <<" ", "T", "0", "4">>
    /\ pfile.number = <<"4">>

\* C10, as stated: for every " T<n>" of the stem with n of one to three digits
\* not starting with 19 or 20, the number recorded is n without leading zeros.
C10_EveryTNumber ==
    pc \in {"get_title", "constructed"} =>
        \A i \in TPositions(pfile.file_name) :
            LET n == TDigits(pfile.file_name, i)
            IN  (Len(n) <= 3 /\ ~StartsWithYearPrefix(n)) => IsCanonicalOf(pfile.number, n)


\* the candidates whose title equals the title asked for, letter case aside
EqualCandidates ==
    {i \in 1..Len(series) : Lower(series[i].title) = Lower(series_name)}

\* search_for_series has returned a candidate and the operator was not asked
ReturnedAtOnce == pc = "get_albums" /\ choice = None

\* C4, as amended: search_for_series returns at once, without a prompt, if
\* and only if at least one candidate equals the title letter case aside, and
\* it returns the first of them in the order of the list; it shows the menu
\* if and only if no candidate does.
C4_FirstEqualReturned ==
    /\ ReturnedAtOnce =>
          EqualCandidates # {} /\ serie = series[Least(EqualCandidates)]
    /\ pc = "choose" => EqualCandidates = {}

\* C4: two candidates equal the title and the first was returned at once
C4_Witness ==
    /\ ReturnedAtOnce
    /\ Cardinality(EqualCandidates) = 2
    /\ series[1].title # series[2].title
    /\ serie = series[1]

\* C4, as stated: a candidate is returned at once if and only if exactly one
\* candidate equals the title letter case aside; the menu is shown otherwise.
C4_ExactlyOneEqual ==
    /\ ReturnedAtOnce => Cardinality(EqualCandidates) = 1
    /\ pc = "choose" => Cardinality(EqualCandidates) # 1

\* scrape has returned the empty list
ReturnedNothing == pc' = (IF caller = "main" THEN "for_album" ELSE "returned") /\ infos' = << >>

\* C5: at the menu over n candidates, k in 1..n returns the k-th candidate,
\* n + 1 restarts the resolution with a title read from the operator, n + 2
\* and any non-numeric answer return none; n may be 0.
C5_ChoiceMapping ==
    [][pc = "choose" =>
        LET n == Len(series)
        IN  /\ ~IsDigitStr(choice') => ReturnedNothing
            /\ (IsDigitStr(choice') /\ IntOf(choice') \in 1..n) =>
                  pc' = "get_albums" /\ serie' = series[IntOf(choice')]
            /\ (IsDigitStr(choice') /\ IntOf(choice') = n + 1) =>
                  /\ pc' = "search_for_title"
                  /\ series_name' \in OperatorTitles
                  /\ depth' = depth + 1
            /\ (IsDigitStr(choice') /\ IntOf(choice') = n + 2) => ReturnedNothing]_vars

\* C5: after a menu without candidates where the operator chose 1 and typed
\* a title, the second of two candidates was chosen
C5_Witness ==
    /\ pc = "get_albums"
    /\ depth = 1
    /\ choice = <<"2">>
    /\ Len(series) = 2
    /\ serie = series[2]

\* the stubs whose lower-cased number is in wanted, in order
RECURSIVE Kept(_, _)
Kept(stubs, wanted) ==
    IF stubs = << >> THEN << >>
    ELSE IF Lower(Head(stubs).number) \in wanted
         THEN <<Head(stubs)>> \o Kept(Tail(stubs), wanted)
         ELSE Kept(Tail(stubs), wanted)

Filtering == pc = "get_album_info" /\ numbers # NoneList /\ numbers # << >>

\* C6, as amended: with a non-empty list of wanted numbers, the stubs that go
\* on to get_album_info are those whose lower-cased number is in the list as
\* the caller supplied it (so the test is case-insensitive when the caller
\* supplies lower-case numbers, as main does); no detail page is requested
\* for any other stub.
C6_LowerCasedStubInList ==
    Filtering =>
        /\ albums = Kept(listed, Range(numbers))
        /\ fetched \subseteq {albums[i].url : i \in 1..Len(albums)}

\* C6: of the stubs "4" and "HS" only "HS" was kept for the wanted number "hs"
C6_Witness ==
    /\ Filtering
    /\ numbers = << <<"h", "s">> >>
    /\ Len(listed) = 2
    /\ Len(albums) = 1
    /\ albums[1].number = <<"H", "S">>

\* C6, as stated: the stubs that go on are those whose number is in the
\* list, letter case aside, whatever the letter case of the caller's numbers.
C6_CaseInsensitiveBothSides ==
    Filtering =>
        /\ albums = Kept(listed, {Lower(numbers[i]) : i \in 1..Len(numbers)})
        /\ fetched \subseteq {albums[i].url : i \in 1..Len(albums)}


\* the stubs of listed whose number is "4"
StubsNumbered4 == {i \in 1..Len(listed) : listed[i].number = S_4}

\* C1: "Blacksad - T04 - Amarillo" without ancestors parses to the title
\* "Blacksad" and the number "4"; for the single candidate "Blacksad" the
\* series is resolved without a prompt; of an album list with one stub
\* numbered "4" the filter to {"4"} keeps that stub alone; and the record
\* serialized after the detail fetch has Series "Blacksad" and Number "4".
C1_BlacksadEndToEnd ==
    /\ \A i \in 1..Len(files) :
          paths[i] = File_BlacksadT04 =>
              Title(files[i]) = S_Blacksad /\ files[i].number = S_4
    /\ (/\ pc \in {"choose", "get_albums"}
        /\ series_name = S_Blacksad
        /\ Len(series) = 1
        /\ series[1].title = S_Blacksad) =>
            pc = "get_albums" /\ choice = None /\ serie = series[1]
    /\ (/\ pc = "get_album_info"
        /\ numbers = << S_4 >>
        /\ Cardinality(StubsNumbered4) = 1) =>
            albums = << listed[Least(StubsNumbered4)] >>
    /\ (/\ pc = "get_album_info"
        /\ serie.title = S_Blacksad
        /\ albums[k].number = S_4) =>
            \A page \in DetailPages :
                (page.content /\ page.tome \in {None, S_4}) =>
                    /\ to_dict(AlbumInfo(albums[k], page)).Series = S_Blacksad
                    /\ to_dict(AlbumInfo(albums[k], page)).Number = S_4
    /\ \A i \in 1..Len(zips) :
          (paths[i] = File_BlacksadT04 /\ zips[i].xml # NoXml) =>
              zips[i].xml.Number = S_4

\* C1: the run over that one file has ended and its container holds the
\* record of Blacksad number 4
C1_Witness ==
    /\ pc = "done"
    /\ paths = << File_BlacksadT04 >>
    /\ Title(files[1]) = S_Blacksad
    /\ zips[1].comicinfo = 1
    /\ zips[1].xml.Series = S_Blacksad
    /\ zips[1].xml.Number = S_4

\* C2: when get_albums raises for want of markup, or a request fails inside
\* scrape, main goes on with the next title: the run never ends on such an
\* exception while titles remain.
C2_ContinuesAfterSeriesFailure ==
    ~(/\ pc = "crashed"
      /\ exc \in {"ValueError", "RequestException"}
      /\ bucket < Len(mapped))

\* C3: main never calls scrape, and so never search_for_series, with the
\* empty title.
C3_EmptyTitleNotResolved ==
    (caller = "main" /\ pc = "search_for_title" /\ depth = 0) => series_name # << >>

\* the current title of main has a file without a number
BucketHasNumberless ==
    /\ bucket <= Len(mapped)
    /\ \E i \in Range(mapped[bucket].files) : files[i].number = None

\* C7: a title with a file without a number is processed without a failure
\* in the collection of the numbers or in the matching of the records to the
\* files.
C7_NumberlessFileHarmless ==
    (pc = "crashed" /\ BucketHasNumberless) => exc # "AttributeError"

\* C9: to_xml gives text only when the validation succeeded and raises
\* without text otherwise; and when it raises in main, nothing is left
\* beside the container of the file: no temporary container and no new
\* container at the path of a file already moved.
C9_NoPartialArtefact ==
    /\ \A album \in {Album(1, S_Blacksad, S_4)} :
          /\ to_xml(album, FALSE).raised /\ to_xml(album, FALSE).text = NoXml
          /\ ~to_xml(album, TRUE).raised
    /\ (pc = "crashed" /\ exc = "XMLSchemaValidationError") =>
          LET f == FindFile(files, mapped[bucket].files, infos[k]).file
          IN  ~zips[f].temp /\ ~zips[f].stray

\* a request of the linking run whose page held the IP-block marker
BlockedRequests == {i \in 1..Len(netlog) : netlog[i].blocked}

\* C8: once a page with the IP-block marker was fetched, the run has ended
\* with the RuntimeError and that request is the last one.
C8_BlockStopsBatch ==
    \A i \in BlockedRequests :
        pc = "crashed" /\ exc = "RuntimeError" /\ i = Len(netlog)


\* the digits of four characters that read as a year
YearLike(n) == Len(n) = 4 /\ <<n[1], n[2]>> \in { <<"1", "9">>, <<"2", "0">> }

\* the leftmost match of every pattern of the list in the stem s
LeftmostMatches(s) == [p \in 1..NumPatterns |-> PatternSearch(p, s)]

\* the digits the match m captures in s, and the whole block it matches
Captured(s, m) == Slice(s, m.ns, m.ne)

Block(s, m) == Slice(s, m.bs, m.be)

\* the patterns whose leftmost match in s is a year, and those whose
\* leftmost match is accepted, ms being the leftmost matches
YearPatterns(s, ms) == {p \in DOMAIN ms : ms[p].ok /\ YearLike(Captured(s, ms[p]))}

AcceptedPatterns(s, ms) == {p \in DOMAIN ms : ms[p].ok /\ ~YearLike(Captured(s, ms[p]))}

\* C11: a captured number of four digits starting with 19 or 20 is never
\* recorded; the stem gets the number of the first pattern of the list whose
\* match is accepted, patterns before it whose match is a year being passed
\* over, and it gets no number when no pattern has an accepted match.
C11_YearSkippedToNextPattern ==
    pc \in {"get_title", "constructed"} =>
        LET s   == pfile.file_name
            ms  == LeftmostMatches(s)
            acc == AcceptedPatterns(s, ms)
        IN  /\ acc = {} => pfile.number = None /\ pfile.found_number = << >>
            /\ acc # {} =>
                  /\ IsCanonicalOf(pfile.number, Captured(s, ms[Least(acc)]))
                  /\ pfile.found_number = Block(s, ms[Least(acc)])
            /\ \A p \in YearPatterns(s, ms) : pfile.found_number # Block(s, ms[p])

\* C11: in "2019 -4-" the bare number 2019 was passed over and the number 4
\* between dashes was recorded
C11_Witness ==
    /\ pc = "constructed"
    /\ pfile.file_name = <<"2", "0", "1", "9", " ", "-", "4", "-">>
    /\ YearPatterns(pfile.file_name, LeftmostMatches(pfile.file_name)) = {2}
    /\ pfile.number = <<"4">>
    /\ pfile.found_number = <<" ", "-", "4", "-">>


\* the lengths of the phrases of alts the title raw begins with, letter case
\* aside, at a word boundary: before whitespace or, when apostrophes is set,
\* at the apostrophe that ends the phrase
LeadingLengths(alts, raw, apostrophes) ==
    {Len(alts[i]) : i \in {j \in 1..Len(alts) :
        /\ Len(alts[j]) < Len(raw)
        /\ Lower(Slice(raw, 1, Len(alts[j]))) = Lower(alts[j])
        /\ \/ raw[Len(alts[j]) + 1] \in Whitespace
           \/ apostrophes /\ alts[j][Len(alts[j])] = "'"}}

Greatest(S) == CHOOSE i \in S : \A j \in S : j <= i

\* raw with its first n characters moved to the end, in parentheses
MovedToEnd(raw, n) ==
    Strip(Slice(raw, n + 1, Len(raw))) \o <<" ", "(">> \o Slice(raw, 1, n) \o <<")">>

\* C12: a title that begins with a prefix phrase has the whole phrase moved
\* to the end in parentheses; otherwise a title that begins with a
\* determiner and whitespace has the determiner moved; any other title is
\* returned unchanged.
C12_LongestPhraseMoved ==
    pc \in {"first_word", "sanitized"} =>
        LET phrases == LeadingLengths(PREFIXES, raw_text, TRUE)
            articles == LeadingLengths(DETERMINERS, raw_text, FALSE)
        IN  IF phrases # {} THEN reverted = MovedToEnd(raw_text, Greatest(phrases))
            ELSE IF articles # {} THEN reverted = MovedToEnd(raw_text, Greatest(articles))
            ELSE reverted = raw_text

\* C13: remove_accents applied to a text it has already been applied to
\* changes nothing, for the title given and for the search key returned.
C13_RemoveAccentsIdempotent ==
    pc \in {"sanitize", "first_word", "sanitized"} =>
        /\ remove_accents(remove_accents(raw_text)) = remove_accents(raw_text)
        /\ pc = "sanitized" => remove_accents(search_key) = search_key

\* C13: the text of U+0153, U+00C9 and U+00E7 was folded to "oeec"
C13_Witness ==
    /\ pc = "sanitized"
    /\ raw_text = <<"U+0153", "U+00C9", "U+00E7">>
    /\ search_key = <<"o", "e", "e", "c">>
    /\ remove_accents(raw_text) # raw_text


\* where the program is while scrape runs
InScrape == {"search_for_title", "choose", "get_albums", "get_album_info"}

\* C15: the session is open exactly while scrape runs: it is opened once, by
\* the call, and it is closed when scrape ends, by a return or by an
\* exception, and stays closed.
C15_SessionReleased ==
    /\ [](session = "open" <=> pc \in InScrape)
    /\ [][(session = "closed" /\ session' = "open") => pc = "call"]_vars
    /\ [][(session = "open" /\ session' = "closed") => pc' \in {"returned", "raised"}]_vars
    /\ [][(pc \in {"returned", "raised"}) => session' = "closed"]_vars

\* C15: scrape has ended on a failed request of a detail page and the
\* session is closed
C15_Witness ==
    /\ pc = "raised"
    /\ exc = "RequestException"
    /\ fetched # {}
    /\ session = "closed"

\* the positions of the log where a detail page was requested
DetailFetches == {i \in 1..Len(netlog) : netlog[i].what = "detail"}

\* C16: between any two requests of detail pages the linking run has slept
\* for the base delay at least.
C16_SleepBetweenDetailFetches ==
    \A i \in DetailFetches, j \in DetailFetches :
        i < j =>
            \E m \in (i + 1)..(j - 1) :
                netlog[m].what = "sleep" /\ netlog[m].ms >= 1000 * BaseDelay

\* C16: two detail pages were requested in one run, the first of them on a
\* path where scrape_info_from_url returned None
C16_Witness ==
    /\ Cardinality(DetailFetches) = 2
    /\ Cardinality({i \in 1..Len(netlog) : netlog[i].what = "series"}) = 0

\* the numbers main asked scrape for, for the current title
WantedNumbers == Range(NumbersOf(files, mapped[bucket].files))

\* C19: when main has asked for some numbers, every record scrape returns
\* has a number that is, lower-cased, among them, and main finds a file with
\* that number for it.
C19_ReturnedNumbersWanted ==
    (pc = "for_album" /\ WantedNumbers # {}) =>
        \A i \in 1..Len(infos) :
            /\ Lower(infos[i].number) \in WantedNumbers
            /\ FindFile(files, mapped[bucket].files, infos[i]).raised = ""

\* C20: at the menu a candidate is returned only for a choice k in 1..n,
\* and it is the k-th candidate; no choice ends in an IndexError.
C20_OnlyListedChoiceReturns ==
    /\ (pc = "get_albums" /\ choice # None) =>
          /\ IntOf(choice) \in 1..Len(series)
          /\ serie = series[IntOf(choice)]
    /\ exc # "IndexError"

\* the labels of the three roles get_album_info asks get_authors for
Roles == {Key.scenario, Key.dessin, Key.couleurs}

\* the contributor list and the display string of a role in a record
ListOf(album, role) ==
    CASE role = Key.scenario -> album.writers
      [] role = Key.dessin   -> album.pencillers
      [] role = Key.couleurs -> album.colorists

TextOf(album, role) ==
    CASE role = Key.scenario -> album.writer
      [] role = Key.dessin   -> album.penciller
      [] role = Key.couleurs -> album.colorist

\* the name of a contributor as the page writes it
RawName(li, role) == Strip(RemovePrefix(Strip(Text(li)), role))

\* the name of a contributor as the page wrote it, from the author built
RawOf(a) ==
    IF a.first_name = << >> /\ a.last_name = << >>
    THEN a.name
    ELSE a.last_name \o <<",", " ">> \o a.first_name

\* the last of the blocks with a blank label that follow the block at i
\* without a gap (i when none does)
RunEnd(content, i) ==
    Greatest({j \in i..Len(content) :
                \A m \in (i + 1)..j :
                    content[m].label # None /\ Strip(content[m].label) = << >>})

NotSentinel(name) == name \notin Sentinels

\* the names, as the page writes them, of the contributors of the block at i
\* and of its continuation blocks, without the sentinels
NamesOfRun(content, role, i) ==
    SelectSeq([j \in 1..(RunEnd(content, i) - i + 1) |-> RawName(content[i + j - 1], role)],
              NotSentinel)

\* the turn of the loop of get_album_info on a block of a role
RoleTurn ==
    /\ pc = "for_info"
    /\ info <= Len(soup.content)
    /\ soup.content[info].label # None
    /\ Strip(soup.content[info].label) \in Roles

\* the first block a role's label is the text of, 0 when there is none
LabelledBlock(content, role) ==
    IF \E i \in 1..Len(content) : content[i].label = role
    THEN Least({i \in 1..Len(content) : content[i].label = role})
    ELSE 0

\* C14: when get_album_info has read the block of a role, no contributor of
\* the role's list has a sentinel for name, the list has the other
\* contributors of the role's labelled block and of its continuation blocks,
\* in their order, and the display string is their names joined by ", ".
C14_SentinelLeftOut ==
    [][(RoleTurn /\ pc' = "for_info") =>
          LET role  == Strip(soup.content[info].label)
              first == LabelledBlock(soup.content, role)
              list  == ListOf(detail', role)
          IN  /\ \A i \in 1..Len(list) : list[i].name \notin Sentinels
              /\ [i \in 1..Len(list) |-> RawOf(list[i])]
                    = IF first = 0 THEN << >> ELSE NamesOfRun(soup.content, role, first)
              /\ TextOf(detail', role) = Join(Names(list), <<",", " ">>)]_vars

\* C14: a page read to its end where a continuation block of the writers
\* has the sentinel between two contributors, who are both listed
C14_Witness ==
    /\ pc = "info_found"
    /\ Len(soup.content) = 3
    /\ soup.content[1].label = Key.scenario
    /\ RawName(soup.content[2], Key.scenario) \in Sentinels
    /\ detail.writer = <<"B", " ", "A", ",", " ", "C">>
    /\ Len(detail.writers) = 2

\* C17: for the block of a role, get_authors gives the contributor of this
\* block and those of the blocks with a blank label that follow it without
\* a gap, in the order of the page, and no other.
C17_RoleBlockAndContinuations ==
    [][RoleTurn =>
          LET role == Strip(soup.content[info].label)
              list == ListOf(detail', role)
          IN  /\ pc' = "for_info"
              /\ [i \in 1..Len(list) |-> RawOf(list[i])]
                    = NamesOfRun(soup.content, role, info)]_vars

\* the turn of the loop of get_album_info on a block of the legal deposit
DepotTurn ==
    /\ pc = "for_info"
    /\ info <= Len(soup.content)
    /\ soup.content[info].label # None
    /\ Strip(soup.content[info].label) = Key.depot

\* C18: on a block of the legal deposit, when the span has the release
\* announcement the day, the month and the year are its numbers; when it has
\* not and the text of the block has the legal deposit, the month and the
\* year are those of the deposit and the day is left as it was, which is -1
\* when no date was set before; when neither is there the three are left as
\* they were. No other field of the record changes.
C18_ReleaseDateOrder ==
    [][DepotTurn =>
          LET li  == soup.content[info]
              rel == IF li.span # None THEN ReleaseDateMatch(Strip(li.span))
                     ELSE [ok |-> FALSE]
              dep == DepotLegalMatch(Strip(Text(li)))
          IN  /\ pc' = "for_info"
              /\ rel.ok =>
                    /\ detail'.day = IntOf(rel.day)
                    /\ detail'.month = IntOf(rel.month)
                    /\ detail'.year = IntOf(rel.year)
              /\ (~rel.ok /\ dep.ok) =>
                    /\ detail'.month = IntOf(dep.month)
                    /\ detail'.year = IntOf(dep.year)
                    /\ detail'.day = detail.day
                    /\ info = 1 => detail'.day = -1
              /\ (~rel.ok /\ ~dep.ok) =>
                    /\ detail'.day = detail.day
                    /\ detail'.month = detail.month
                    /\ detail'.year = detail.year
              /\ \A f \in DOMAIN detail \ {"day", "month", "year"} :
                    detail'[f] = detail[f]]_vars

\* C18: a page of one block where the span has the release announcement and
\* the text has another legal deposit: the date is the one of the span
C18_Witness ==
    /\ pc = "info_found"
    /\ Len(soup.content) = 1
    /\ DepotLegalMatch(Strip(Text(soup.content[1]))).ok
    /\ detail.day = 15
    /\ detail.month = 4
    /\ detail.year = 2020

\* the files whose title is the one get_title found in their names
OnRegexTitles == \A i \in 1..Len(files) : Title(files[i]) = files[i].regex_suggested_title

\* extract_json has raised: get_metadata_from_ai raises only on a list that is
\* not empty
ExtractJsonRaised == pc = "raised" /\ to_return = << >>

\* C21: extract_json returns a list for every text of a response, and raises
\* nothing; when the list is empty the files keep the titles found in their
\* names.
C21_ExtractJsonReturns ==
    /\ ~ExtractJsonRaised
    /\ (pc = "metadata_applied" /\ to_return = << >>) => OnRegexTitles

=============================================================================
